---- MODULE Spec2Model ----
(***************************************************************************)
(* cafeCompass backend: review analysis and score aggregation              *)
(* (backend/src/services/ai-analysis.ts, backend/src/services/database.ts) *)
(* and the flagging done by the stand-alone processing script.             *)
(*                                                                         *)
(* Numbers that are fractions in the program are kept exact here as pairs  *)
(* <<numerator, denominator>> with a positive denominator.                 *)
(***************************************************************************)
EXTENDS Integers, Sequences, FiniteSets, TLC

(***************************************************************************)
(* Bounds of the model                                                     *)
(***************************************************************************)
\* longest review list handed to the aggregator in SpecAgg
MaxBatch == 3
\* most reviews stored per venue in Spec
MaxStored == 2
\* last reading of the clock in Spec: every storeReviews call and every
\* analyzeCafe invocation advances the clock by one
MaxTime == 3

(***************************************************************************)
(* Review texts the provider can return                                    *)
(***************************************************************************)
Texts ==
  { "Fast wifi, great for laptop work",
    "Super loud and crowded",
    "Nice pastries",
    "Quiet spot",
    "Slow internet, no outlets, bad",
    "Wifi and power",
    "Comfortable",
    "Quiet desk, good internet",
    "Loud noise but you can work, love it, terrible coffee",
    "No laptops, some noise",
    "Fast wifi, quiet, plenty of outlets, laptop friendly",
    "Slow wifi, loud, no outlets, no laptops" }

(***************************************************************************)
(* Strings and exact fractions                                             *)
(***************************************************************************)
Min(a, b) == IF a <= b THEN a ELSE b
Max(a, b) == IF a >= b THEN a ELSE b

toLowerCaseChar(c) ==
  CASE c = "A" -> "a" [] c = "B" -> "b" [] c = "C" -> "c" [] c = "D" -> "d"
    [] c = "E" -> "e" [] c = "F" -> "f" [] c = "G" -> "g" [] c = "H" -> "h"
    [] c = "I" -> "i" [] c = "J" -> "j" [] c = "K" -> "k" [] c = "L" -> "l"
    [] c = "M" -> "m" [] c = "N" -> "n" [] c = "O" -> "o" [] c = "P" -> "p"
    [] c = "Q" -> "q" [] c = "R" -> "r" [] c = "S" -> "s" [] c = "T" -> "t"
    [] c = "U" -> "u" [] c = "V" -> "v" [] c = "W" -> "w" [] c = "X" -> "x"
    [] c = "Y" -> "y" [] c = "Z" -> "z" [] OTHER -> c

RECURSIVE toLowerCaseFrom(_, _)
toLowerCaseFrom(s, i) ==
  IF i > Len(s) THEN ""
  ELSE toLowerCaseChar(SubSeq(s, i, i)) \o toLowerCaseFrom(s, i + 1)

\* String.prototype.toLowerCase
toLowerCase(s) == toLowerCaseFrom(s, 1)

\* String.prototype.includes: k occurs in s as a contiguous substring
includes(s, k) ==
  \E i \in 1..(Len(s) - Len(k) + 1) : SubSeq(s, i, i + Len(k) - 1) = k

\* String.prototype.substring(0, n)
substring0(s, n) == SubSeq(s, 1, Min(n, Len(s)))

\* Array.prototype.filter(...).length over a list of phrases
CountIncluded(text, phrases) ==
  Cardinality({ i \in 1..Len(phrases) : includes(text, phrases[i]) })

RatLeq(a, b) == a[1] * b[2] <= b[1] * a[2]
RatEq(a, b) == a[1] * b[2] = b[1] * a[2]
RatMin(a, b) == IF RatLeq(a, b) THEN a ELSE b
RatMax(a, b) == IF RatLeq(a, b) THEN b ELSE a
\* Math.round of n/d for d > 0: the integer nearest, halves upward
RoundRat(n, d) == (2 * n + d) \div (2 * d)

RECURSIVE GCD(_, _)
GCD(a, b) == IF b = 0 THEN a ELSE GCD(b, a % b)
Reduced(r) == LET g == GCD(r[1], r[2]) IN <<r[1] \div g, r[2] \div g>>

(***************************************************************************)
(* AIAnalysisService.analyzeReview                                         *)
(***************************************************************************)
workKeywords ==
  << "wifi", "internet", "laptop", "work", "study", "meeting", "call",
     "quiet", "noise", "outlet", "power", "charging", "focus", "productive",
     "remote", "office", "desk", "table", "seating", "comfortable" >>

positivePhrases ==
  << "great", "excellent", "love", "perfect", "amazing", "good", "nice" >>
negativePhrases ==
  << "bad", "terrible", "awful", "hate", "worst", "poor", "slow" >>

\* the work-relevance threshold of analyzeReview
WorkRelatedThreshold == 2

matchedKeywordsOf(text) == SelectSeq(workKeywords, LAMBDA k : includes(text, k))

isWorkRelatedOf(text) == Len(matchedKeywordsOf(text)) >= WorkRelatedThreshold

\* sentimentScore with the negative matches left out of the difference
sentimentScoreNoNegatives(text) ==
  LET positiveCount == CountIncluded(text, positivePhrases)
      negativeCount == CountIncluded(text, negativePhrases)
      raw == << positiveCount, Max(positiveCount + negativeCount, 1) >>
  IN  RatMax(<<-1, 1>>, RatMin(<<1, 1>>, raw))

\* sentimentScore after the clamp Math.max(-1, Math.min(1, .))
sentimentScore(text) ==
  LET positiveCount == CountIncluded(text, positivePhrases)
      negativeCount == CountIncluded(text, negativePhrases)
      raw == << positiveCount - negativeCount,
                Max(positiveCount + negativeCount, 1) >>
  IN  RatMax(<<-1, 1>>, RatMin(<<1, 1>>, raw))

wifiScore(text) ==
  IF includes(text, "fast") \/ includes(text, "good wifi") THEN 8
  ELSE IF includes(text, "slow") \/ includes(text, "bad wifi") THEN 3 ELSE 6

noiseScore(text) ==
  IF includes(text, "quiet") THEN 2
  ELSE IF includes(text, "loud") THEN 8 ELSE 5

outletScore(text) ==
  IF includes(text, "plenty") \/ includes(text, "lots of outlets") THEN 9
  ELSE IF includes(text, "no outlets") \/ includes(text, "few outlets")
       THEN 2 ELSE 6

laptopScore(text) ==
  IF includes(text, "laptop friendly") \/ includes(text, "welcome laptops")
  THEN 9
  ELSE IF includes(text, "no laptops") THEN 1 ELSE 7

\* the attributes analyzeReview attaches to a work-related review
extractedAttributes(reviewText) ==
  LET text == toLowerCase(reviewText)
      hasWifiMention == includes(text, "wifi") \/ includes(text, "internet")
      hasNoiseMention == includes(text, "quiet") \/ includes(text, "loud")
                           \/ includes(text, "noise")
      hasOutletMention == includes(text, "outlet") \/ includes(text, "power")
                            \/ includes(text, "charging")
      hasLaptopMention == includes(text, "laptop") \/ includes(text, "computer")
                            \/ includes(text, "work")
      evidence == substring0(reviewText, 100) \o "..."
      present == (IF hasWifiMention THEN {"wifi_quality"} ELSE {})
                 \cup (IF hasNoiseMention THEN {"noise_level"} ELSE {})
                 \cup (IF hasOutletMention THEN {"outlet_availability"} ELSE {})
                 \cup (IF hasLaptopMention THEN {"laptop_friendliness"} ELSE {})
  IN  [ a \in present |->
          CASE a = "wifi_quality" ->
                 [score |-> wifiScore(text), confidence |-> <<7, 10>>,
                  evidence |-> evidence]
            [] a = "noise_level" ->
                 [score |-> noiseScore(text), confidence |-> <<8, 10>>,
                  evidence |-> evidence]
            [] a = "outlet_availability" ->
                 [score |-> outletScore(text), confidence |-> <<6, 10>>,
                  evidence |-> evidence]
            [] a = "laptop_friendliness" ->
                 [score |-> laptopScore(text), confidence |-> <<7, 10>>,
                  evidence |-> evidence] ]

NoAttributes == [ a \in {} |-> 0 ]

\* analyzeReview without the test of isWorkRelated before the attributes
analyzeReviewAlwaysExtracts(reviewText) ==
  LET text == toLowerCase(reviewText)
      matchedKeywords == matchedKeywordsOf(text)
      isWorkRelated == isWorkRelatedOf(text)
  IN  [ is_work_related |-> isWorkRelated,
        work_relevance_score |->
          IF isWorkRelated
          THEN RatMin(<<Len(matchedKeywords), 10>>, <<1, 1>>)
          ELSE <<0, 1>>,
        extracted_attributes |-> extractedAttributes(reviewText),
        sentiment_score |-> sentimentScore(text),
        matched_keywords |-> matchedKeywords ]

analyzeReview(reviewText) ==
  LET text == toLowerCase(reviewText)
      matchedKeywords == matchedKeywordsOf(text)
      isWorkRelated == isWorkRelatedOf(text)
  IN  [ is_work_related |-> isWorkRelated,
        work_relevance_score |->
          IF isWorkRelated
          THEN RatMin(<<Len(matchedKeywords), 10>>, <<1, 1>>)
          ELSE <<0, 1>>,
        extracted_attributes |->
          IF isWorkRelated THEN extractedAttributes(reviewText)
          ELSE NoAttributes,
        sentiment_score |-> sentimentScore(text),
        matched_keywords |-> matchedKeywords ]

(***************************************************************************)
(* AIAnalysisService.calculateCafeScores                                   *)
(***************************************************************************)
RECURSIVE SumScores(_, _)
SumScores(analyses, attribute) ==
  IF analyses = <<>> THEN 0
  ELSE Head(analyses).extracted_attributes[attribute].score
         + SumScores(Tail(analyses), attribute)

\* calculateAttributeAverage without the filter: a review without a value
\* counts as zero
calculateAttributeAverageZeroForMissing(analyses, attribute) ==
  LET relevantAnalyses ==
        SelectSeq(analyses,
                  LAMBDA a : attribute \in DOMAIN a.extracted_attributes)
  IN  IF Len(analyses) = 0 THEN <<5, 1>>
      ELSE << SumScores(relevantAnalyses, attribute), Len(analyses) >>

\* calculateAttributeAverage with a reduce that drops the accumulator: the
\* last score over the count
calculateAttributeAverageLastOnly(analyses, attribute) ==
  LET relevantAnalyses ==
        SelectSeq(analyses,
                  LAMBDA a : attribute \in DOMAIN a.extracted_attributes)
  IN  IF Len(relevantAnalyses) = 0 THEN <<5, 1>>
      ELSE << relevantAnalyses[Len(relevantAnalyses)]
                .extracted_attributes[attribute].score,
              Len(relevantAnalyses) >>

\* the mean of the attribute's scores as <<sum, count>>, 5 when there is none
calculateAttributeAverage(analyses, attribute) ==
  LET relevantAnalyses ==
        SelectSeq(analyses,
                  LAMBDA a : attribute \in DOMAIN a.extracted_attributes)
  IN  IF Len(relevantAnalyses) = 0 THEN <<5, 1>>
      ELSE << SumScores(relevantAnalyses, attribute), Len(relevantAnalyses) >>

generateWorkSummary(data) ==
  (IF data.remoteWorkScore >= 8 THEN "Excellent for remote work. "
   ELSE IF data.remoteWorkScore >= 6 THEN "Good for remote work. "
   ELSE IF data.remoteWorkScore >= 4 THEN "Decent for remote work. "
   ELSE "May not be ideal for remote work. ")
  \o data.wifiSpeed \o " WiFi, " \o data.noiseLevel \o " atmosphere. "
  \o (IF data.laptopPolicy = "encouraged" THEN "Laptops are welcome. "
      ELSE IF data.laptopPolicy = "discouraged"
           THEN "Laptops may not be encouraged. " ELSE "")
  \o "Based on " \o ToString(data.workReviewsCount) \o " work-related review"
  \o (IF data.workReviewsCount = 1 THEN "" ELSE "s") \o "."

\* The weighted sum is evaluated in IEEE-754 doubles.  It differs from the
\* exact value only when the exact value is k + 1/2 and the double falls just
\* below it, so that Math.round yields k.  These are the averages
\* <<wifi, noise, outlet, laptop>> (in lowest terms, seating 5) where that
\* happens, for every list of at most 5 work-related reviews.
DoubleTieRoundsDown ==
  { <<15,4, 5,1, 38,5, 41,5>>,
    <<17,4, 22,5, 21,5, 13,5>>,
    <<17,4, 23,4, 38,5, 41,5>>,
    <<23,5, 7,2, 38,5, 9,2>>,
    <<26,5, 22,5, 38,5, 9,2>>,
    <<21,4, 22,5, 19,4, 41,5>>,
    <<21,4, 29,4, 38,5, 41,5>>,
    <<28,5, 5,1, 38,5, 9,2>>,
    <<23,4, 16,5, 14,5, 41,5>>,
    <<23,4, 19,5, 17,5, 41,5>>,
    <<23,4, 19,5, 38,5, 13,5>>,
    <<23,4, 4,1, 18,5, 41,5>>,
    <<23,4, 4,1, 39,5, 13,5>>,
    <<23,4, 22,5, 4,1, 41,5>>,
    <<23,4, 5,1, 4,1, 9,1>>,
    <<23,4, 5,1, 11,2, 7,1>>,
    <<23,4, 5,1, 13,2, 17,3>>,
    <<23,4, 5,1, 38,5, 21,5>>,
    <<23,4, 5,1, 8,1, 11,3>>,
    <<23,4, 28,5, 26,5, 41,5>>,
    <<23,4, 6,1, 28,5, 41,5>>,
    <<23,4, 31,5, 29,5, 41,5>>,
    <<23,4, 37,5, 7,1, 41,5>>,
    <<23,4, 8,1, 38,5, 41,5>>,
    <<6,1, 7,2, 4,1, 13,2>>,
    <<6,1, 7,2, 11,2, 9,2>>,
    <<6,1, 28,5, 38,5, 9,2>>,
    <<6,1, 6,1, 13,2, 13,2>>,
    <<6,1, 6,1, 8,1, 9,2>>,
    <<19,3, 22,5, 22,5, 13,2>>,
    <<32,5, 31,5, 38,5, 9,2>>,
    <<33,5, 22,5, 4,1, 13,2>>,
    <<33,5, 22,5, 11,2, 9,2>>,
    <<33,5, 6,1, 28,5, 13,2>>,
    <<33,5, 31,5, 29,5, 13,2>>,
    <<33,5, 13,2, 38,5, 9,2>>,
    <<33,5, 37,5, 7,1, 13,2>>,
    <<27,4, 3,1, 2,1, 7,1>>,
    <<27,4, 16,5, 11,2, 13,5>>,
    <<27,4, 22,5, 17,5, 7,1>>,
    <<27,4, 22,5, 4,1, 31,5>>,
    <<27,4, 22,5, 22,5, 17,3>>,
    <<27,4, 22,5, 11,2, 21,5>>,
    <<27,4, 37,5, 11,2, 41,5>>,
    <<22,3, 3,1, 3,1, 9,2>>,
    <<22,3, 22,5, 22,5, 9,2>>,
    <<22,3, 5,1, 5,1, 9,2>>,
    <<22,3, 8,1, 13,2, 13,2>>,
    <<22,3, 8,1, 8,1, 9,2>>,
    <<38,5, 16,5, 14,5, 9,2>>,
    <<38,5, 22,5, 4,1, 9,2>>,
    <<38,5, 8,1, 38,5, 9,2>>,
    <<8,1, 22,5, 17,5, 9,2>> }

\* remoteWorkScoreOf without the final * 0.8
remoteWorkScoreOfUnscaled(w, n, o, s, l) ==
  LET d == w[2] * n[2] * o[2] * s[2] * l[2]
      num == 30 * w[1] * (d \div w[2])
             + 20 * (10 * n[2] - n[1]) * (d \div n[2])
             + 20 * o[1] * (d \div o[2])
             + 15 * s[1] * (d \div s[2])
             + 15 * l[1] * (d \div l[2])
  IN  RoundRat(num, 100 * d)

\* Math.round((wifi*0.3 + (10-noise)*0.2 + outlet*0.2 + seating*0.15
\*             + laptop*0.15) * 0.8)
remoteWorkScoreOf(w, n, o, s, l) ==
  LET d == w[2] * n[2] * o[2] * s[2] * l[2]
      num == 24 * w[1] * (d \div w[2])
             + 16 * (10 * n[2] - n[1]) * (d \div n[2])
             + 16 * o[1] * (d \div o[2])
             + 12 * s[1] * (d \div s[2])
             + 12 * l[1] * (d \div l[2])
      key == Reduced(w) \o Reduced(n) \o Reduced(o) \o Reduced(l)
  IN  IF Reduced(s) = <<5, 1>> /\ key \in DoubleTieRoundsDown
      THEN RoundRat(num, 100 * d) - 1
      ELSE RoundRat(num, 100 * d)

\* wifiSpeedOf with strict comparisons at the thresholds
wifiSpeedOfStrict(avgWifiScore) ==
  IF ~RatLeq(avgWifiScore, <<7, 1>>) THEN "fast"
  ELSE IF ~RatLeq(avgWifiScore, <<4, 1>>) THEN "adequate" ELSE "slow"

\* lines 299-301: the categorical value of an average
wifiSpeedOf(avgWifiScore) ==
  IF RatLeq(<<7, 1>>, avgWifiScore) THEN "fast"
  ELSE IF RatLeq(<<4, 1>>, avgWifiScore) THEN "adequate" ELSE "slow"

\* noiseLevelOf with strict comparisons at the thresholds
noiseLevelOfStrict(avgNoiseScore) ==
  IF ~RatLeq(<<3, 1>>, avgNoiseScore) THEN "quiet"
  ELSE IF ~RatLeq(<<7, 1>>, avgNoiseScore) THEN "moderate" ELSE "loud"

noiseLevelOf(avgNoiseScore) ==
  IF RatLeq(avgNoiseScore, <<3, 1>>) THEN "quiet"
  ELSE IF RatLeq(avgNoiseScore, <<7, 1>>) THEN "moderate" ELSE "loud"

\* laptopPolicyOf with strict comparisons at the thresholds
laptopPolicyOfStrict(avgLaptopScore) ==
  IF ~RatLeq(avgLaptopScore, <<7, 1>>) THEN "encouraged"
  ELSE IF ~RatLeq(avgLaptopScore, <<4, 1>>) THEN "allowed" ELSE "discouraged"

\* laptopPolicyOf with the wording of the summary ("Laptops are welcome")
\* in place of the stored value
laptopPolicyOfSummaryWording(avgLaptopScore) ==
  IF RatLeq(<<7, 1>>, avgLaptopScore) THEN "welcome"
  ELSE IF RatLeq(<<4, 1>>, avgLaptopScore) THEN "allowed" ELSE "discouraged"

laptopPolicyOf(avgLaptopScore) ==
  IF RatLeq(<<7, 1>>, avgLaptopScore) THEN "encouraged"
  ELSE IF RatLeq(<<4, 1>>, avgLaptopScore) THEN "allowed" ELSE "discouraged"

\* line 332: good_for_calls
goodForCalls(avgNoiseScore) == RatLeq(avgNoiseScore, <<4, 1>>)

\* goodForFocus with the noise threshold of good_for_calls
goodForFocusCallsThreshold(avgNoiseScore, avgWifiScore) ==
  RatLeq(avgNoiseScore, <<4, 1>>) /\ RatLeq(<<6, 1>>, avgWifiScore)

\* line 333: good_for_focus
goodForFocus(avgNoiseScore, avgWifiScore) ==
  RatLeq(avgNoiseScore, <<3, 1>>) /\ RatLeq(<<6, 1>>, avgWifiScore)

\* the profile returned when no review is work-related
defaultScores(workReviewsCount) ==
  [ wifi_speed |-> "adequate",
    outlet_rating |-> 3,
    noise_level |-> "moderate",
    seating_rating |-> 3,
    laptop_policy |-> "allowed",
    good_for_calls |-> FALSE,
    good_for_focus |-> FALSE,
    remote_work_score |-> 5,
    work_summary |-> "Limited information available for work assessment",
    vibe_tags |-> << "general" >>,
    best_times_to_work |-> <<>>,
    deal_breakers |-> <<>>,
    ai_confidence_score |-> <<1, 10>>,
    work_reviews_count |-> workReviewsCount ]

calculateCafeScores(analyses) ==
  LET workRelatedAnalyses == SelectSeq(analyses, LAMBDA a : a.is_work_related)
      workReviewsCount == Len(workRelatedAnalyses)
      avgWifiScore ==
        calculateAttributeAverage(workRelatedAnalyses, "wifi_quality")
      avgNoiseScore ==
        calculateAttributeAverage(workRelatedAnalyses, "noise_level")
      avgOutletScore ==
        calculateAttributeAverage(workRelatedAnalyses, "outlet_availability")
      avgSeatingScore ==
        calculateAttributeAverage(workRelatedAnalyses, "seating_comfort")
      avgLaptopScore ==
        calculateAttributeAverage(workRelatedAnalyses, "laptop_friendliness")
      wifiSpeed == wifiSpeedOf(avgWifiScore)
      noiseLevel == noiseLevelOf(avgNoiseScore)
      laptopPolicy == laptopPolicyOf(avgLaptopScore)
      remoteWorkScore ==
        remoteWorkScoreOf(avgWifiScore, avgNoiseScore, avgOutletScore,
                          avgSeatingScore, avgLaptopScore)
      vibeTags ==
        (IF RatLeq(avgNoiseScore, <<3, 1>>) THEN << "quiet" >> ELSE <<>>)
        \o (IF RatLeq(<<7, 1>>, avgLaptopScore)
            THEN << "laptop-friendly" >> ELSE <<>>)
        \o (IF RatLeq(<<7, 1>>, avgWifiScore) THEN << "fast-wifi" >> ELSE <<>>)
        \o (IF RatLeq(<<7, 1>>, avgOutletScore)
            THEN << "plenty-of-outlets" >> ELSE <<>>)
        \o (IF remoteWorkScore >= 7 THEN << "work-friendly" >> ELSE <<>>)
  IN  IF workReviewsCount = 0 THEN defaultScores(workReviewsCount)
      ELSE
      [ wifi_speed |-> wifiSpeed,
        outlet_rating |->
          Max(1, Min(5, RoundRat(avgOutletScore[1], 2 * avgOutletScore[2]))),
        noise_level |-> noiseLevel,
        seating_rating |->
          Max(1, Min(5, RoundRat(avgSeatingScore[1], 2 * avgSeatingScore[2]))),
        laptop_policy |-> laptopPolicy,
        good_for_calls |-> goodForCalls(avgNoiseScore),
        good_for_focus |-> goodForFocus(avgNoiseScore, avgWifiScore),
        remote_work_score |-> Max(0, Min(10, remoteWorkScore)),
        work_summary |->
          generateWorkSummary([wifiSpeed |-> wifiSpeed,
                               noiseLevel |-> noiseLevel,
                               laptopPolicy |-> laptopPolicy,
                               remoteWorkScore |-> remoteWorkScore,
                               workReviewsCount |-> workReviewsCount]),
        vibe_tags |-> vibeTags,
        best_times_to_work |-> <<>>,
        deal_breakers |-> IF RatLeq(avgWifiScore, <<3, 1>>)
                          THEN << "slow wifi" >> ELSE <<>>,
        ai_confidence_score |-> RatMin(<<1, 1>>, <<workReviewsCount, 10>>),
        work_reviews_count |-> workReviewsCount ]

Attributes ==
  { "wifi_quality", "noise_level", "outlet_availability", "seating_comfort",
    "laptop_friendliness" }

\* calculateCafeScores, lines 292-296: the average of each attribute over
\* the work-related analyses
attributeAverages(analyses) ==
  LET workRelatedAnalyses == SelectSeq(analyses, LAMBDA a : a.is_work_related)
  IN  [ attribute \in Attributes |->
          calculateAttributeAverage(workRelatedAnalyses, attribute) ]

\* estimateCost: reviewCount * 0.001 US dollars, kept in thousandths
estimateCost(reviewCount) == << reviewCount, 1000 >>

(***************************************************************************)
(* The processing script: WORK_KEYWORDS and isWorkRelated                  *)
(***************************************************************************)
WORK_KEYWORDS ==
  << "wifi", "wi-fi", "internet", "work", "working", "laptop",
     "remote", "study", "studying", "quiet", "noise", "loud",
     "outlet", "plug", "charging", "workspace", "coworking",
     "desk", "table", "seating", "hours", "stay",
     "focus", "productive", "concentration", "meeting", "call",
     "zoom" >>

isWorkRelated(reviewText) ==
  IF reviewText = "" THEN FALSE
  ELSE LET lowerText == toLowerCase(reviewText)
       IN  \E i \in 1..Len(WORK_KEYWORDS) : includes(lowerText, WORK_KEYWORDS[i])

(***************************************************************************)
(* State                                                                   *)
(***************************************************************************)
VARIABLES
  input,            \* SpecAgg: the review texts handed to the aggregator
  lastRun,          \* SpecAgg: input and results of the latest aggregation
  prevRun,          \* SpecAgg: results of the aggregation before it
  reviewsTable,     \* SpecScript: the rows of the script's reviews table
  cafeRow,          \* SpecScript: the script's row of the cafes table
  script,           \* SpecScript: position and locals of processCafe
  cafes,            \* Spec: the cafes table, one row per venue
  cafe_reviews,     \* Spec: the cafe_reviews table, the rows of each venue
  ai_analysis_log,  \* Spec: the ai_analysis_log table
  run,              \* Spec: position and locals of processCafesNeedingAnalysis
  ingest,           \* SpecIngest: the latest DatabaseService.storeReviews call
  now,              \* Spec: the clock read by new Date() and Date.now()
  user_favorites,   \* SpecFavorites: the cafe ids of the user's rows
  favorites,        \* SpecFavorites: the favorites state of the provider
  toggles           \* SpecFavorites: position and locals of each call

vars == << input, lastRun, prevRun, reviewsTable, cafeRow, script, cafes,
           cafe_reviews, ai_analysis_log, run, ingest, now, user_favorites,
           favorites, toggles >>

aggVars == << input, lastRun, prevRun >>
scriptVars == << reviewsTable, cafeRow, script >>
storeVars == << cafes, cafe_reviews, ai_analysis_log, run, ingest, now >>
favVars == << user_favorites, favorites, toggles >>

\* most toggleFavorite calls in flight at once
MaxToggles == 2

Toggles == 1..MaxToggles

Cafes == { "c1", "c2" }

Range(s) == { s[i] : i \in 1..Len(s) }
SeqsUpTo(S, n) == UNION { [1..k -> S] : k \in 0..n }

NoRun == [ none |-> TRUE ]
NullScores == [ none |-> TRUE ]

cafesInit ==
  [ c \in Cafes |->
      [ needs_ai_reanalysis |-> FALSE,
        total_reviews_scraped |-> 0,
        last_review_scraped_at |-> 0,
        last_ai_analysis_at |-> 0,
        scores |-> NullScores ] ]

runInit ==
  [ pc |-> "idle", cafes |-> <<>>, next |-> 1 ]

\* the script's store before the first run, and a process not yet started;
\* a timestamp column is 0 (NULL) or 1 (set), work_score 0 is NULL
cafeRowInit ==
  [ work_score |-> 0, review_count |-> 0, last_analyzed_at |-> 0 ]

scriptInit ==
  /\ reviewsTable = <<>>
  /\ cafeRow = cafeRowInit
  /\ script = [ pc |-> "idle", responses |-> <<>> ]

storeInit ==
  /\ cafes = cafesInit
  /\ cafe_reviews = [ c \in Cafes |-> <<>> ]
  /\ ai_analysis_log = <<>>
  /\ run = runInit
  /\ ingest = [ outcome |-> "none" ]
  /\ now = 1

\* the provider of a user who has no favorite yet, after loadFavorites
favInit ==
  /\ user_favorites = {}
  /\ favorites = {}
  /\ toggles = [ t \in Toggles |-> [ pc |-> "idle" ] ]

aggInit == input = <<>> /\ lastRun = NoRun /\ prevRun = NoRun

(***************************************************************************)
(* SpecAgg: the aggregator applied to every review list up to MaxBatch     *)
(***************************************************************************)
\* how often each text occurs in a list
BagOf(texts) ==
  [ t \in Range(texts) |-> Cardinality({ i \in 1..Len(texts) : texts[i] = t }) ]

\* the fields of a profile other than the free-text summary
Categorical(scores) ==
  [ wifi_speed |-> scores.wifi_speed,
    noise_level |-> scores.noise_level,
    laptop_policy |-> scores.laptop_policy,
    good_for_calls |-> scores.good_for_calls,
    good_for_focus |-> scores.good_for_focus,
    remote_work_score |-> scores.remote_work_score,
    vibe_tags |-> scores.vibe_tags,
    confidence |-> scores.ai_confidence_score ]

\* the analyses of a run, by review text
PerReview(r) == { << r.input[i], r.reviewAnalyses[i] >> : i \in 1..Len(r.input) }

InitAgg ==
  /\ input \in SeqsUpTo(Texts, MaxBatch)
  /\ lastRun = NoRun
  /\ prevRun = NoRun
  /\ scriptInit
  /\ favInit
  /\ storeInit

\* analyzeReview on each text the provider can return
analysisOf == [ t \in Texts |-> analyzeReview(t) ]

\* lines 126-138 of analyzeCafe: analyze every review, then aggregate
Aggregate ==
  LET reviewAnalyses == [ i \in 1..Len(input) |-> analysisOf[input[i]] ]
  IN  /\ lastRun' = [ input |-> input,
                      reviewAnalyses |-> reviewAnalyses,
                      averages |-> attributeAverages(reviewAnalyses),
                      cafeScores |-> calculateCafeScores(reviewAnalyses) ]
      /\ prevRun' = IF lastRun = NoRun THEN NoRun
                    ELSE [ input |-> lastRun.input,
                           perReview |-> PerReview(lastRun),
                           categorical |-> Categorical(lastRun.cafeScores) ]
      /\ UNCHANGED << input, scriptVars, storeVars, favVars >>

\* the store hands the same reviews over in another order (Init draws every
\* order and two orders are compared, so reordering before the second
\* aggregation reaches every pair of orders)
ReorderInput ==
  \E i \in 1..(Len(input) - 1) :
    /\ prevRun = NoRun
    /\ input[i] # input[i + 1]
    /\ input' = [ input EXCEPT ![i] = input[i + 1], ![i + 1] = input[i] ]
    /\ UNCHANGED << lastRun, prevRun, scriptVars, storeVars, favVars >>

NextAgg == Aggregate \/ ReorderInput

SpecAgg == InitAgg /\ [][NextAgg]_vars

(***************************************************************************)
(* SpecScript: storeReviews of the processing script                       *)
(***************************************************************************)
\* reviews as the provider returns them to the script
ScriptReviews ==
  { [ author_id |-> "u1", review_timestamp |-> 100,
      review_text |-> "Fast wifi, great for laptop work" ],
    [ author_id |-> "u2", review_timestamp |-> 200,
      review_text |-> "Quiet spot" ],
    [ author_id |-> "u3", review_timestamp |-> 300,
      review_text |-> "Nice pastries" ],
    [ author_id |-> "u4", review_timestamp |-> 400,
      review_text |-> "Super loud and crowded" ],
    [ author_id |-> "u5", review_timestamp |-> 500,
      review_text |-> "" ] }

\* longest batch one storeReviews call of the script gets
MaxScriptBatch == 2
\* most rows of the script's reviews table
MaxScriptStored == 3

googleReviewIdOf(review) ==
  review.author_id \o "_" \o ToString(review.review_timestamp)

scriptRow(review) ==
  LET lower == toLowerCase(review.review_text)
  IN  [ text |-> review.review_text,
        google_review_id |-> googleReviewIdOf(review),
        is_work_related |-> isWorkRelated(review.review_text),
        mentions_wifi |->
          review.review_text # ""
            /\ (includes(lower, "wifi") \/ includes(lower, "wi-fi")
                  \/ includes(lower, "internet")),
        mentions_noise |->
          review.review_text # ""
            /\ (includes(lower, "quiet") \/ includes(lower, "loud")
                  \/ includes(lower, "noise")),
        analyzed_at |-> 0 ]

\* the row of each review the provider can return
scriptRowOf == [ review \in ScriptReviews |-> scriptRow(review) ]

\* the loop of storeReviews from review i on; rejected holds the positions
\* whose insert the store refuses for a reason of its own
RECURSIVE scriptInsertFrom(_, _, _, _, _)
scriptInsertFrom(table, reviews, i, existingIds, rejected) ==
  IF i > Len(reviews) THEN table
  ELSE
    LET id == scriptRowOf[reviews[i]].google_review_id
        unique == \A k \in 1..Len(table) : table[k].google_review_id # id
        table2 == IF id \in existingIds THEN table
                  ELSE IF unique /\ i \notin rejected
                       THEN Append(table, scriptRowOf[reviews[i]])
                       ELSE table
    IN  scriptInsertFrom(table2, reviews, i + 1, existingIds, rejected)

storeReviews(reviews, rejected) ==
  LET existingIds == { reviewsTable[k].google_review_id :
                         k \in 1..Len(reviewsTable) }
  IN  /\ reviewsTable' =
           scriptInsertFrom(reviewsTable, reviews, 1, existingIds, rejected)
      /\ UNCHANGED << aggVars, storeVars, favVars >>

\* what the generative model can answer: the object asked for, the object in
\* a code fence, the object in backticks, prose around the object, a
\* truncated object, and a JSON document of another shape.  The character '
\* stands for the backtick, which a string of this language cannot hold.
Responses ==
  { "{\"work_score\":4}",
    "'''json\n{\"work_score\":2}\n'''",
    " '{\"work_score\":3}' ",
    "Sure! {\"work_score\":4}",
    "{\"work_score\":",
    "[]" }

\* String.prototype.replace(/pat\n?/g, "") when newline is TRUE, else
\* replace(/pat/g, ""): one pass from position i
RECURSIVE replaceAllFrom(_, _, _, _)
replaceAllFrom(s, pat, newline, i) ==
  IF i > Len(s) THEN ""
  ELSE IF i + Len(pat) - 1 <= Len(s) /\ SubSeq(s, i, i + Len(pat) - 1) = pat
       THEN LET j == i + Len(pat)
            IN  replaceAllFrom(s, pat, newline,
                  IF newline /\ j <= Len(s) /\ SubSeq(s, j, j) = "\n"
                  THEN j + 1 ELSE j)
       ELSE SubSeq(s, i, i) \o replaceAllFrom(s, pat, newline, i + 1)

isWhiteSpace(c) == c \in { " ", "\n", "\t", "\r" }

\* String.prototype.trim
RECURSIVE trimStart(_)
trimStart(s) ==
  IF Len(s) > 0 /\ isWhiteSpace(SubSeq(s, 1, 1))
  THEN trimStart(SubSeq(s, 2, Len(s))) ELSE s
RECURSIVE trimEnd(_)
trimEnd(s) ==
  IF Len(s) > 0 /\ isWhiteSpace(SubSeq(s, Len(s), Len(s)))
  THEN trimEnd(SubSeq(s, 1, Len(s) - 1)) ELSE s
trim(s) == trimEnd(trimStart(s))

\* analyzeReviews, lines 745-750: strip the code-fence markers
cleanResponse(response) ==
  trim(replaceAllFrom(
         replaceAllFrom(
           replaceAllFrom(response, "'''json", TRUE, 1),
           "'''", TRUE, 1),
         "'", FALSE, 1))

SyntaxError == [ name |-> "SyntaxError" ]

digitOf(c) ==
  CASE c = "0" -> 0 [] c = "1" -> 1 [] c = "2" -> 2 [] c = "3" -> 3
    [] c = "4" -> 4 [] c = "5" -> 5 [] OTHER -> -1

\* JSON.parse on the documents the model can answer with: {"work_score":d}
\* gives an object with that field, [] an array (no field work_score),
\* any other text a SyntaxError
JSONparse(text) ==
  LET head == "{\"work_score\":"
  IN  IF text = "[]" THEN [ length |-> 0 ]
      ELSE IF /\ Len(text) = Len(head) + 2
              /\ SubSeq(text, 1, Len(head)) = head
              /\ SubSeq(text, Len(text), Len(text)) = "}"
              /\ digitOf(SubSeq(text, Len(head) + 1, Len(head) + 1)) >= 0
           THEN [ work_score |->
                    digitOf(SubSeq(text, Len(head) + 1, Len(head) + 1)) ]
           ELSE SyntaxError

\* the result of cleaning and parsing each answer
parsedOf == [ r \in Responses |-> JSONparse(cleanResponse(r)) ]

\* process.exit(1) of the catch block of processCafe
exitWith(message) ==
  [ pc |-> "exit", responses |-> script.responses, error |-> message ]

\* processCafe, lines 1064-1083: a run of the command scrapes the venue and
\* stores its reviews; without place data the process exits
processCafe ==
  /\ script.pc \in { "idle", "done", "exit" }
  /\ \/ \E reviews \in SeqsUpTo(ScriptReviews, MaxScriptBatch) :
          \E rejected \in SUBSET (1..Len(reviews)) :
            /\ storeReviews(reviews, rejected)
            /\ Len(reviewsTable') <= MaxScriptStored
            /\ script' = [ pc |-> "analyzeWithAI", responses |-> <<>>,
                           allReviews |-> Len(reviews) ]
     \/ /\ script' = [ pc |-> "exit", responses |-> <<>>,
                        error |-> "Could not fetch cafe data" ]
        /\ UNCHANGED << reviewsTable, aggVars, storeVars, favVars >>
  /\ UNCHANGED cafeRow

\* analyzeWithAI: the work-related rows, or every row when there is none (or
\* the query fails); no row at all is an error
analyzeWithAI ==
  /\ script.pc = "analyzeWithAI"
  /\ LET work == SelectSeq(reviewsTable, LAMBDA r : r.is_work_related)
     IN  \/ /\ Len(work) > 0
            /\ script' = [ pc |-> "analyzeReviews",
                           hasWorkReviews |-> TRUE ] @@ script
         \/ /\ Len(reviewsTable) > 0
            /\ script' = [ pc |-> "analyzeReviews",
                           hasWorkReviews |-> FALSE ] @@ script
         \/ /\ Len(reviewsTable) = 0
            /\ script' = exitWith("No reviews to analyze")
  /\ UNCHANGED << reviewsTable, cafeRow, aggVars, storeVars, favVars >>

\* analyzeReviews: one generateContent call; the answer is cleaned and
\* handed to JSON.parse, whose SyntaxError reaches the catch block of
\* processCafe, as does a failure of the call itself
analyzeReviews ==
  /\ script.pc = "analyzeReviews"
  /\ \/ \E response \in Responses :
          LET scores == parsedOf[response]
              received == Append(script.responses, response)
          IN  script' =
                IF scores = SyntaxError
                THEN [ exitWith("SyntaxError") EXCEPT !.responses = received ]
                ELSE [ pc |-> "updateCafeScores", responses |-> received,
                       scores |-> scores ] @@ script
     \/ script' = exitWith("generateContent")
  /\ UNCHANGED << reviewsTable, cafeRow, aggVars, storeVars, favVars >>

\* updateCafeScores of the script: a field the parsed value lacks is left
\* out of the update; a failed update throws, the update of the reviews is
\* not checked
updateCafeScores ==
  /\ script.pc = "updateCafeScores"
  /\ \/ /\ cafeRow' =
              [ work_score |-> IF "work_score" \in DOMAIN script.scores
                               THEN script.scores.work_score
                               ELSE cafeRow.work_score,
                review_count |-> script.allReviews,
                last_analyzed_at |-> 1 ]
        /\ \/ reviewsTable' =
                [ k \in 1..Len(reviewsTable) |->
                    [ reviewsTable[k] EXCEPT !.analyzed_at = 1 ] ]
           \/ UNCHANGED reviewsTable
        /\ script' = [ script EXCEPT !.pc = "done" ]
     \/ /\ script' = exitWith("Update failed")
        /\ UNCHANGED << reviewsTable, cafeRow >>
  /\ UNCHANGED << aggVars, storeVars, favVars >>

InitScript ==
  /\ scriptInit
  /\ favInit
  /\ aggInit
  /\ storeInit

NextScript ==
  \/ processCafe
  \/ analyzeWithAI
  \/ analyzeReviews
  \/ updateCafeScores

SpecScript == InitScript /\ [][NextScript]_vars

(***************************************************************************)
(* Spec: the store, ingestion and processCafesNeedingAnalysis              *)
(***************************************************************************)
\* reviews as the provider returns them to DatabaseService.storeReviews
StoreReviews ==
  { [ author_name |-> "ann", rating |-> 5, time |-> 100,
      text |-> "Fast wifi, great for laptop work" ],
    [ author_name |-> "bob", rating |-> 4, time |-> 200,
      text |-> "Quiet spot" ],
    [ author_name |-> "cy", rating |-> 1, time |-> 300,
      text |-> "Slow internet, no outlets, bad" ] }

\* longest batch one DatabaseService.storeReviews call gets
MaxStoreBatch == 2

\* the limit analyzeCafe passes to getCafeReviews
ReviewFetchLimit == 200

\* the limits processCafesNeedingAnalysis is called with (5 is the default)
BatchLimits == { 1, 5 }

\* the row DatabaseService.storeReviews builds for a provider review
reviewToInsert(cafeId, review, id) ==
  [ id |-> id,
    cafe_id |-> cafeId,
    author_name |-> review.author_name,
    rating |-> review.rating,
    review_text |-> review.text,
    review_date |-> review.time,
    google_review_id |->
      cafeId \o "_" \o ToString(review.time) \o "_" \o review.author_name,
    matched_keywords |-> <<>>,
    is_work_related |-> FALSE,
    work_relevance_score |-> <<0, 1>>,
    extracted_attributes |-> NoAttributes,
    sentiment_score |-> <<0, 1>>,
    analyzed_at |-> 0 ]

\* UNIQUE(cafe_id, google_review_id) and UNIQUE(cafe_id, author_name,
\* review_date) of cafe_reviews hold of the rows
uniqueRows(rows) ==
  \A i, j \in 1..Len(rows) :
    i # j => /\ rows[i].google_review_id # rows[j].google_review_id
             /\ << rows[i].author_name, rows[i].review_date >>
                  # << rows[j].author_name, rows[j].review_date >>

\* DatabaseService.storeReviews with the insert trigger
\* mark_cafe_for_reanalysis and updateCafeReviewCount; counted tells whether
\* increment_cafe_review_count or its fallback took effect.  When the insert
\* is refused (a UNIQUE constraint is violated, or the store fails for a
\* reason of its own, which has the same effect) the call throws and
\* nothing is stored.
DatabaseService_storeReviews(cafeId, reviews, counted) ==
  LET old == cafe_reviews[cafeId]
      n == Len(reviews)
      rows == old \o [ k \in 1..n |->
                reviewToInsert(cafeId, reviews[k],
                               cafeId \o "-" \o ToString(Len(old) + k)) ]
      triggered == [ cafes[cafeId] EXCEPT
                       !.needs_ai_reanalysis = TRUE,
                       !.total_reviews_scraped = @ + n ]
  IN  /\ n > 0
      /\ \/ /\ now < MaxTime
            /\ Len(rows) <= MaxStored
            /\ uniqueRows(rows)
            /\ cafe_reviews' = [ cafe_reviews EXCEPT ![cafeId] = rows ]
            /\ cafes' = [ cafes EXCEPT ![cafeId] =
                            IF counted
                            THEN [ triggered EXCEPT
                                     !.total_reviews_scraped = @ + n,
                                     !.last_review_scraped_at = now ]
                            ELSE triggered ]
            /\ now' = now + 1
         \/ /\ ~uniqueRows(rows)
            /\ ~counted
            /\ UNCHANGED << cafes, cafe_reviews, now >>
      /\ UNCHANGED << aggVars, scriptVars, favVars, ai_analysis_log, run >>

\* markCafeForReanalysis writing needs_ai_reanalysis: false
markCafeForReanalysisClears(cafeId) ==
  /\ cafes' = [ cafes EXCEPT ![cafeId].needs_ai_reanalysis = FALSE ]
  /\ UNCHANGED << aggVars, scriptVars, favVars, ingest, cafe_reviews, ai_analysis_log,
                  run, now >>

\* DatabaseService.markCafeForReanalysis
markCafeForReanalysis(cafeId) ==
  /\ cafes' = [ cafes EXCEPT ![cafeId].needs_ai_reanalysis = TRUE ]
  /\ UNCHANGED << aggVars, scriptVars, favVars, ingest, cafe_reviews, ai_analysis_log,
                  run, now >>

\* scrapedKey with NULLS FIRST: a venue never scraped sorts before the rest
scrapedKeyNullsFirst(c) == cafes[c].last_review_scraped_at

\* the rows getCafesNeedingReanalysis(limit) can return: the marked venues,
\* oldest last_review_scraped_at first, never scraped (NULL, here 0) last
scrapedKey(c) ==
  IF cafes[c].last_review_scraped_at = 0 THEN 1000000
  ELSE cafes[c].last_review_scraped_at

getCafesNeedingReanalysis(limit) ==
  LET marked == { c \in Cafes : cafes[c].needs_ai_reanalysis }
      k == Min(limit, Cardinality(marked))
  IN  { [ i \in 1..k |->
            [ id |-> ids[i],
              last_ai_analysis_at |-> cafes[ids[i]].last_ai_analysis_at ] ] :
        ids \in { s \in [1..k -> marked] :
                    /\ \A i, j \in 1..k : i < j =>
                         /\ s[i] # s[j]
                         /\ scrapedKey(s[i]) <= scrapedKey(s[j])
                    /\ \A c \in marked \ Range(s) :
                         \A i \in 1..k : scrapedKey(s[i]) <= scrapedKey(c) } }

\* the rows getCafeReviews(cafeId, limit) can return: newest first; rows of
\* the same date come in any order
getCafeReviews(cafeId, limit) ==
  LET rows == cafe_reviews[cafeId]
      n == Len(rows)
      k == Min(limit, n)
      newer == [ i \in 1..n |->
                 Cardinality({ j \in 1..n :
                                 rows[j].review_date > rows[i].review_date }) ]
      at == [ r \in 1..k |-> CHOOSE i \in 1..n : newer[i] = r - 1 ]
  IN  IF \A i, j \in 1..n : i # j => rows[i].review_date # rows[j].review_date
      THEN { [ r \in 1..k |-> rows[at[r]] ] }
      ELSE { [ i \in 1..k |-> rows[p[i]] ] :
             p \in { s \in [1..k -> 1..n] :
                       /\ \A i, j \in 1..k : i < j =>
                            /\ s[i] # s[j]
                            /\ rows[s[i]].review_date >= rows[s[j]].review_date
                       /\ \A m \in (1..n) \ Range(s) :
                            \A i \in 1..k :
                              rows[s[i]].review_date >= rows[m].review_date } }

\* the position after analyzeCafe returned: the next venue or the end
afterCafe(r) ==
  [ r EXCEPT !.next = @ + 1,
             !.pc = IF r.next + 1 > Len(r.cafes) THEN "done" ELSE "loop" ]

\* processCafesNeedingAnalysis up to the first venue
processCafesNeedingAnalysis(limit) ==
  /\ run.pc \in { "idle", "done", "threw" }
  /\ \/ \E list \in getCafesNeedingReanalysis(limit) :
          run' = [ pc |-> IF Len(list) = 0 THEN "done" ELSE "loop",
                   cafes |-> list, next |-> 1 ]
     \/ run' = [ pc |-> "threw", cafes |-> <<>>, next |-> 1 ]
  /\ UNCHANGED << aggVars, scriptVars, favVars, ingest, cafes, cafe_reviews,
                  ai_analysis_log, now >>

\* analyzeCafe, lines 100-107: the locals before the try block
analyzeCafeBegin ==
  /\ run.pc = "loop"
  /\ now < MaxTime
  /\ LET cafe == run.cafes[run.next]
     IN  run' = [ pc |-> "getCafeReviews",
                  cafes |-> run.cafes,
                  next |-> run.next,
                  cafe |-> cafe,
                  startTime |-> now + 1,
                  analysisLog |->
                    [ cafe_id |-> cafe.id,
                      analysis_type |->
                        IF cafe.last_ai_analysis_at # 0 THEN "reanalysis"
                        ELSE "initial_analysis",
                      status |-> "processing",
                      ai_model |-> "gemini-1.5-flash",
                      previous_work_score |-> 0 ] ]
  /\ now' = now + 1
  /\ UNCHANGED << aggVars, scriptVars, favVars, ingest, cafes, cafe_reviews,
                  ai_analysis_log >>

\* analyzeCafe, lines 113-124: fetch the reviews, return when there is none
analyzeCafeFetch ==
  /\ run.pc = "getCafeReviews"
  /\ \/ \E reviews \in getCafeReviews(run.cafe.id, ReviewFetchLimit) :
          run' = IF Len(reviews) = 0
                 THEN afterCafe(run) @@ [ reviews |-> reviews ]
                 ELSE [ pc |-> "analyzeReview",
                        reviews |-> reviews,
                        i |-> 1,
                        reviewAnalyses |-> <<>>,
                        workRelatedCount |-> 0 ] @@ run
     \/ run' = [ pc |-> "catch", error |-> "getCafeReviews" ] @@ run
  /\ UNCHANGED << aggVars, scriptVars, favVars, ingest, cafes, cafe_reviews,
                  ai_analysis_log, now >>

\* the annotation updateReviewAnalysis writes into a row
withAnalysis(row, analysis) ==
  [ row EXCEPT
      !.is_work_related = analysis.is_work_related,
      !.work_relevance_score = analysis.work_relevance_score,
      !.extracted_attributes = analysis.extracted_attributes,
      !.sentiment_score = analysis.sentiment_score,
      !.matched_keywords = analysis.matched_keywords,
      !.analyzed_at = now ]

\* updateReviewAnalysis without .eq('id', reviewId): every row is updated
updateReviewAnalysisNoFilter(table, reviewId, analysis) ==
  [ c \in DOMAIN table |->
      [ k \in 1..Len(table[c]) |-> withAnalysis(table[c][k], analysis) ] ]

\* DatabaseService.updateReviewAnalysis: the cafe_reviews table after the
\* update of the rows whose id is reviewId
updateReviewAnalysis(table, reviewId, analysis) ==
  [ c \in DOMAIN table |->
      [ k \in 1..Len(table[c]) |->
          IF table[c][k].id = reviewId
          THEN withAnalysis(table[c][k], analysis)
          ELSE table[c][k] ] ]

\* analyzeCafe, lines 126-135: one pass of the review loop
analyzeCafeReview ==
  /\ run.pc = "analyzeReview"
  /\ LET review == run.reviews[run.i]
         analysis == analysisOf[review.review_text]
         pushed == [ run EXCEPT
                       !.reviewAnalyses = Append(@, analysis),
                       !.workRelatedCount =
                         IF analysis.is_work_related THEN @ + 1 ELSE @ ]
         continued == [ pushed EXCEPT
                          !.i = @ + 1,
                          !.pc = IF run.i + 1 > Len(run.reviews)
                                 THEN "updateCafeScores" ELSE "analyzeReview" ]
     IN  IF analysis.is_work_related
         THEN \/ /\ cafe_reviews' =
                      updateReviewAnalysis(cafe_reviews, review.id, analysis)
                 /\ run' = continued
              \/ /\ run' = [ pc |-> "catch",
                             error |-> "updateReviewAnalysis" ] @@ pushed
                 /\ UNCHANGED cafe_reviews
         ELSE /\ run' = continued
              /\ UNCHANGED cafe_reviews
  /\ UNCHANGED << aggVars, scriptVars, favVars, ingest, cafes, ai_analysis_log, now >>

\* analyzeCafe, lines 137-155: aggregate, fill the log, write the profile
analyzeCafeScores ==
  /\ run.pc = "updateCafeScores"
  /\ LET cafeScores == calculateCafeScores(run.reviewAnalyses)
         analysisLog ==
           [ status |-> "completed",
             reviews_processed |-> Len(run.reviews),
             work_reviews_found |-> run.workRelatedCount,
             new_work_score |-> cafeScores.remote_work_score,
             score_change |-> cafeScores.remote_work_score
                                - run.analysisLog.previous_work_score,
             processing_time_ms |-> now - run.startTime,
             confidence_score |-> cafeScores.ai_confidence_score,
             ai_cost_usd |-> estimateCost(Len(run.reviews)) ]
           @@ run.analysisLog
         filled == [ cafeScores |-> cafeScores ]
                   @@ [ run EXCEPT !.analysisLog = analysisLog ]
     IN  \/ /\ cafes' = [ cafes EXCEPT ![run.cafe.id] =
                            [ @ EXCEPT !.scores = cafeScores,
                                       !.last_ai_analysis_at = now,
                                       !.needs_ai_reanalysis = FALSE ] ]
            /\ run' = [ filled EXCEPT !.pc = "logAIAnalysis" ]
         \/ /\ run' = [ pc |-> "catch", error |-> "updateCafeScores" ]
                      @@ filled
            /\ UNCHANGED cafes
  /\ UNCHANGED << aggVars, scriptVars, favVars, ingest, cafe_reviews, ai_analysis_log,
                  now >>

\* DatabaseService.logAIAnalysis: the row inserted for a log
logAIAnalysis(log) == Append(ai_analysis_log, log @@ [ created_at |-> now ])

\* analyzeCafe, lines 157-162: append the log of the completed run
analyzeCafeLog ==
  /\ run.pc = "logAIAnalysis"
  /\ \/ /\ ai_analysis_log' = logAIAnalysis(run.analysisLog)
        /\ run' = afterCafe(run)
     \/ /\ run' = [ pc |-> "catch", error |-> "logAIAnalysis" ] @@ run
        /\ UNCHANGED ai_analysis_log
  /\ UNCHANGED << aggVars, scriptVars, favVars, ingest, cafes, cafe_reviews, now >>

\* analyzeCafe, lines 164-176: the catch block; when its own logAIAnalysis
\* throws, the error leaves analyzeCafe and processCafesNeedingAnalysis
analyzeCafeCatch ==
  /\ run.pc = "catch"
  /\ LET analysisLog ==
           [ status |-> "failed",
             processing_time_ms |-> now - run.startTime,
             error_message |-> run.error ]
           @@ run.analysisLog
         failed == [ run EXCEPT !.analysisLog = analysisLog ]
     IN  \/ /\ ai_analysis_log' = logAIAnalysis(analysisLog)
            /\ run' = afterCafe(failed)
         \/ /\ run' = [ failed EXCEPT !.pc = "threw" ]
            /\ UNCHANGED ai_analysis_log
  /\ UNCHANGED << aggVars, scriptVars, favVars, ingest, cafes, cafe_reviews, now >>

Init ==
  /\ aggInit
  /\ scriptInit
  /\ favInit
  /\ storeInit

Next ==
  \/ \E c \in Cafes :
       \E reviews \in SeqsUpTo(StoreReviews, MaxStoreBatch) :
         \E counted \in BOOLEAN :
           /\ DatabaseService_storeReviews(c, reviews, counted)
           /\ UNCHANGED ingest
  \/ \E c \in Cafes : markCafeForReanalysis(c)
  \/ \E limit \in BatchLimits : processCafesNeedingAnalysis(limit)
  \/ analyzeCafeBegin
  \/ analyzeCafeFetch
  \/ analyzeCafeReview
  \/ analyzeCafeScores
  \/ analyzeCafeLog
  \/ analyzeCafeCatch

Spec == Init /\ [][Next]_vars

(***************************************************************************)
(* SpecIngest: the calls of DatabaseService.storeReviews and how they end  *)
(***************************************************************************)
\* scrapeCafe, step 4: a call of storeReviews that returns the stored rows
\* or throws
scrapeCafeStoreReviews(cafeId, reviews, counted) ==
  /\ DatabaseService_storeReviews(cafeId, reviews, counted)
  /\ ingest' = [ outcome |-> IF cafe_reviews' = cafe_reviews
                             THEN "threw" ELSE "stored",
                 cafe_id |-> cafeId,
                 reviews |-> reviews ]

NextIngest ==
  \/ \E c \in Cafes :
       \E reviews \in SeqsUpTo(StoreReviews, MaxStoreBatch) :
         \E counted \in BOOLEAN :
           scrapeCafeStoreReviews(c, reviews, counted)
  \/ \E c \in Cafes : markCafeForReanalysis(c)

SpecIngest == Init /\ [][NextIngest]_vars

(***************************************************************************)
(* SpecFetch: analysis runs of a venue with many stored reviews            *)
(***************************************************************************)
\* most reviews stored for the venue in SpecFetch
MaxFetchStored == 201

\* n stored reviews of a venue, the oldest a work-related one
storedReviews(cafeId, n) ==
  [ k \in 1..n |->
      reviewToInsert(cafeId,
                     [ author_name |-> "a" \o ToString(k),
                       rating |-> 4,
                       time |-> k,
                       text |-> IF k = 1
                                THEN "Fast wifi, great for laptop work"
                                ELSE "Nice pastries" ],
                     cafeId \o "-" \o ToString(k)) ]

\* the store after the reviews of venue c1 were ingested (the insert
\* trigger marked the venue and counted the rows)
InitFetch ==
  /\ aggInit
  /\ scriptInit
  /\ favInit
  /\ \E n \in { 1, MaxFetchStored - 1, MaxFetchStored } :
       /\ cafe_reviews = [ c \in Cafes |->
                             IF c = "c1" THEN storedReviews(c, n) ELSE <<>> ]
       /\ cafes = [ c \in Cafes |->
                      IF c = "c1"
                      THEN [ cafesInit[c] EXCEPT
                               !.needs_ai_reanalysis = TRUE,
                               !.total_reviews_scraped = Len(cafe_reviews[c]) ]
                      ELSE cafesInit[c] ]
  /\ ai_analysis_log = <<>>
  /\ run = runInit
  /\ ingest = [ outcome |-> "none" ]
  /\ now = 1

NextFetch ==
  \/ \E limit \in BatchLimits : processCafesNeedingAnalysis(limit)
  \/ analyzeCafeBegin
  \/ analyzeCafeFetch
  \/ analyzeCafeReview
  \/ analyzeCafeScores
  \/ analyzeCafeLog
  \/ analyzeCafeCatch

SpecFetch == InitFetch /\ [][NextFetch]_vars

(***************************************************************************)
(* SpecStored: analysis runs over two venues that hold stored reviews      *)
(***************************************************************************)
\* the rows of a venue after its provider reviews were ingested
storedRows(cafeId, reviews) ==
  [ k \in 1..Len(reviews) |->
      reviewToInsert(cafeId, reviews[k], cafeId \o "-" \o ToString(k)) ]

\* two provider reviews, the first work-related, the second not
fewReviews ==
  << [ author_name |-> "ann", rating |-> 5, time |-> 100,
       text |-> "Fast wifi, great for laptop work" ],
     [ author_name |-> "bob", rating |-> 4, time |-> 200,
       text |-> "Quiet spot" ] >>

\* the store after ingestion: venue c1 holds any rows the UNIQUE
\* constraints admit, venue c2 none or two; the insert trigger marked the
\* venues that got rows and counted them
InitStored ==
  /\ aggInit
  /\ scriptInit
  /\ favInit
  /\ \E r1 \in SeqsUpTo(StoreReviews, MaxStored) :
       \E r2 \in { <<>>, fewReviews } :
         LET given == [ c \in Cafes |-> IF c = "c1" THEN r1 ELSE r2 ]
         IN  /\ cafe_reviews = [ c \in Cafes |-> storedRows(c, given[c]) ]
             /\ \A c \in Cafes : uniqueRows(cafe_reviews[c])
             /\ cafes = [ c \in Cafes |->
                            [ cafesInit[c] EXCEPT
                                !.needs_ai_reanalysis = given[c] # <<>>,
                                !.total_reviews_scraped = Len(given[c]) ] ]
  /\ ai_analysis_log = <<>>
  /\ run = runInit
  /\ ingest = [ outcome |-> "none" ]
  /\ now = 1

NextStored ==
  \/ \E c \in Cafes : markCafeForReanalysis(c)
  \/ \E limit \in BatchLimits : processCafesNeedingAnalysis(limit)
  \/ analyzeCafeBegin
  \/ analyzeCafeFetch
  \/ analyzeCafeReview
  \/ analyzeCafeScores
  \/ analyzeCafeLog
  \/ analyzeCafeCatch

SpecStored == InitStored /\ [][NextStored]_vars

(***************************************************************************)
(* SpecInterleaved: ingestion and analysis of a venue that holds a review  *)
(***************************************************************************)
\* the store after one review of venue c1 was ingested
InitInterleaved ==
  /\ aggInit
  /\ scriptInit
  /\ favInit
  /\ cafe_reviews = [ c \in Cafes |->
                        IF c = "c1"
                        THEN storedRows(c, << fewReviews[1] >>) ELSE <<>> ]
  /\ cafes = [ c \in Cafes |->
                 IF c = "c1"
                 THEN [ cafesInit[c] EXCEPT !.needs_ai_reanalysis = TRUE,
                                            !.total_reviews_scraped = 1 ]
                 ELSE cafesInit[c] ]
  /\ ai_analysis_log = <<>>
  /\ run = runInit
  /\ ingest = [ outcome |-> "none" ]
  /\ now = 1

SpecInterleaved == InitInterleaved /\ [][Next]_vars

(***************************************************************************)
(* SpecRepeat: processCafesNeedingAnalysis run again and again while the   *)
(* store operations succeed                                                *)
(***************************************************************************)
\* the store after scrapeCafe ran for both venues: a venue got reviews
\* (storeReviews counted them and set last_review_scraped_at) or none, and
\* a venue without reviews was created marked or unmarked
InitRepeat ==
  /\ aggInit
  /\ scriptInit
  /\ favInit
  /\ \E r1, r2 \in SeqsUpTo(StoreReviews, MaxStored) :
       \E m1, m2 \in BOOLEAN :
         LET given == [ c \in Cafes |-> IF c = "c1" THEN r1 ELSE r2 ]
             includeReviews == [ c \in Cafes |-> IF c = "c1" THEN m1 ELSE m2 ]
         IN  /\ cafe_reviews = [ c \in Cafes |-> storedRows(c, given[c]) ]
             /\ \A c \in Cafes : uniqueRows(cafe_reviews[c])
             /\ \A c \in Cafes : given[c] # <<>> => includeReviews[c]
             /\ cafes = [ c \in Cafes |->
                            [ cafesInit[c] EXCEPT
                                !.needs_ai_reanalysis = includeReviews[c],
                                !.total_reviews_scraped = 2 * Len(given[c]),
                                !.last_review_scraped_at =
                                  IF given[c] = <<>> THEN 0 ELSE 1 ] ]
  /\ ai_analysis_log = <<>>
  /\ run = runInit
  /\ ingest = [ outcome |-> "none" ]
  /\ now = 1

\* the steps of processCafesNeedingAnalysis in which the store answers
NextRepeat ==
  \/ \E limit \in BatchLimits :
       processCafesNeedingAnalysis(limit) /\ run'.pc # "threw"
  \/ analyzeCafeBegin
  \/ analyzeCafeFetch /\ run'.pc # "catch"
  \/ analyzeCafeReview /\ run'.pc # "catch"
  \/ analyzeCafeScores /\ run'.pc # "catch"
  \/ analyzeCafeLog /\ run'.pc # "catch"

\* the process is run again whenever it has returned, and a run goes on
SpecRepeat == InitRepeat /\ [][NextRepeat]_vars /\ WF_vars(NextRepeat)

(***************************************************************************)
(* SpecFavorites: FavoritesProvider and favoritesApi for a signed-in user  *)
(***************************************************************************)
\* FavoritesProvider.toggleFavorite is called: the function of the current
\* render, which closes over that render's favorites
toggleFavorite(t, cafeId) ==
  /\ toggles[t].pc \in { "idle", "done" }
  /\ toggles' = [ toggles EXCEPT ![t] =
                    [ pc |-> "isCafeFavorited",
                      cafeId |-> cafeId,
                      favorites |-> favorites ] ]
  /\ UNCHANGED << aggVars, scriptVars, storeVars, user_favorites, favorites >>

\* favoritesApi.toggleFavorite, first await: isCafeFavorited
isCafeFavorited(t) ==
  /\ toggles[t].pc = "isCafeFavorited"
  /\ toggles' = [ toggles EXCEPT ![t] =
                    [ pc |-> IF toggles[t].cafeId \in user_favorites
                             THEN "removeFavorite" ELSE "addFavorite" ]
                    @@ toggles[t] ]
  /\ UNCHANGED << aggVars, scriptVars, storeVars, user_favorites, favorites >>

\* favoritesApi.removeFavorite: deleting no row is not an error
removeFavorite(t) ==
  /\ toggles[t].pc = "removeFavorite"
  /\ user_favorites' = user_favorites \ { toggles[t].cafeId }
  /\ toggles' = [ toggles EXCEPT ![t] =
                    [ pc |-> "setFavorites", newIsFavorited |-> FALSE ]
                    @@ toggles[t] ]
  /\ UNCHANGED << aggVars, scriptVars, storeVars, favorites >>

\* favoritesApi.addFavorite: the insert is refused by UNIQUE(user_id,
\* cafe_id) when the row exists; the error is caught by the provider
addFavorite(t) ==
  /\ toggles[t].pc = "addFavorite"
  /\ IF toggles[t].cafeId \in user_favorites
     THEN /\ toggles' = [ toggles EXCEPT ![t] =
                            [ pc |-> "error" ] @@ toggles[t] ]
          /\ UNCHANGED user_favorites
     ELSE /\ user_favorites' = user_favorites \cup { toggles[t].cafeId }
          /\ toggles' = [ toggles EXCEPT ![t] =
                            [ pc |-> "setFavorites",
                              newIsFavorited |-> TRUE ] @@ toggles[t] ]
  /\ UNCHANGED << aggVars, scriptVars, storeVars, favorites >>

\* toggleFavorite, lines 67-76: the new set is built from the favorites of
\* the render the call was made in
setFavorites(t) ==
  /\ toggles[t].pc = "setFavorites"
  /\ favorites' = IF toggles[t].newIsFavorited
                  THEN toggles[t].favorites \cup { toggles[t].cafeId }
                  ELSE toggles[t].favorites \ { toggles[t].cafeId }
  /\ toggles' = [ toggles EXCEPT ![t] =
                    [ pc |-> IF toggles[t].newIsFavorited
                             THEN "getUserFavorites" ELSE "done" ]
                    @@ toggles[t] ]
  /\ UNCHANGED << aggVars, scriptVars, storeVars, user_favorites >>

\* loadFavorites, line 43: the store answers with the user's rows
getUserFavorites(t) ==
  /\ toggles[t].pc = "getUserFavorites"
  /\ toggles' = [ toggles EXCEPT ![t] =
                    [ pc |-> "loadFavorites", cafes |-> user_favorites ]
                    @@ toggles[t] ]
  /\ UNCHANGED << aggVars, scriptVars, storeVars, user_favorites, favorites >>

\* loadFavorites, lines 45-48: the answer becomes the favorites state
loadFavorites(t) ==
  /\ toggles[t].pc = "loadFavorites"
  /\ favorites' = toggles[t].cafes
  /\ toggles' = [ toggles EXCEPT ![t] = [ pc |-> "done" ] @@ toggles[t] ]
  /\ UNCHANGED << aggVars, scriptVars, storeVars, user_favorites >>

InitFavorites ==
  /\ aggInit
  /\ scriptInit
  /\ favInit
  /\ storeInit

NextFavorites ==
  \E t \in Toggles :
    \/ \E cafeId \in Cafes : toggleFavorite(t, cafeId)
    \/ isCafeFavorited(t)
    \/ removeFavorite(t)
    \/ addFavorite(t)
    \/ setFavorites(t)
    \/ getUserFavorites(t)
    \/ loadFavorites(t)

SpecFavorites == InitFavorites /\ [][NextFavorites]_vars

(***************************************************************************)
(* Properties of the aggregator (SpecAgg)                                  *)
(***************************************************************************)
\* the matches of each provider text, counted apart from analyzeReview
positiveCountOf ==
  [ t \in Texts |-> CountIncluded(toLowerCase(t), positivePhrases) ]
negativeCountOf ==
  [ t \in Texts |-> CountIncluded(toLowerCase(t), negativePhrases) ]

\* the positions of a run whose review is work-related and has a WiFi score
WifiPositions(r) ==
  { i \in 1..Len(r.input) :
      /\ r.reviewAnalyses[i].is_work_related
      /\ "wifi_quality" \in DOMAIN r.reviewAnalyses[i].extracted_attributes }

WorkPositions(r) ==
  { i \in 1..Len(r.input) : r.reviewAnalyses[i].is_work_related }

RECURSIVE SumOver(_, _)
SumOver(f, S) ==
  IF S = {} THEN 0
  ELSE LET x == CHOOSE y \in S : TRUE IN f[x] + SumOver(f, S \ { x })

WifiSum(r) ==
  SumOver([ i \in 1..Len(r.input) |->
              IF i \in WifiPositions(r)
              THEN r.reviewAnalyses[i].extracted_attributes["wifi_quality"].score
              ELSE 0 ],
          WifiPositions(r))

\* C1: two aggregations of the same non-empty review set, whatever the order
\* the reviews are handed over in, give every review the same analysis
\* (flag, sub-scores, sentiment, keywords) and the profile the same
\* categorical outputs.
C1_AggregationIsPure ==
  ( /\ lastRun # NoRun
    /\ prevRun # NoRun
    /\ lastRun.input # <<>>
    /\ BagOf(prevRun.input) = BagOf(lastRun.input) )
  => /\ PerReview(lastRun) = prevRun.perReview
     /\ Categorical(lastRun.cafeScores) = prevRun.categorical

\* two runs on the same reviews in different orders, with two work-related
\* reviews that score WiFi differently
C1_Witness ==
  /\ lastRun # NoRun
  /\ prevRun # NoRun
  /\ BagOf(prevRun.input) = BagOf(lastRun.input)
  /\ prevRun.input # lastRun.input
  /\ \E i, j \in WifiPositions(lastRun) :
       lastRun.reviewAnalyses[i].extracted_attributes["wifi_quality"].score
         # lastRun.reviewAnalyses[j].extracted_attributes["wifi_quality"].score

\* C2: the aggregation of the empty review list is the default profile:
\* WiFi adequate, noise moderate, laptops allowed, confidence exactly 0.
C2_EmptySetDefaultProfile ==
  ( lastRun # NoRun /\ lastRun.input = <<>> )
  => /\ lastRun.cafeScores.wifi_speed = "adequate"
     /\ lastRun.cafeScores.noise_level = "moderate"
     /\ lastRun.cafeScores.laptop_policy = "allowed"
     /\ RatEq(lastRun.cafeScores.ai_confidence_score, <<0, 1>>)

\* C3: a review list with reviews but no work-related one yields confidence 0
\* and the work score 5.
C3_NoWorkReviewsDefault ==
  ( lastRun # NoRun /\ lastRun.input # <<>> /\ WorkPositions(lastRun) = {} )
  => /\ RatEq(lastRun.cafeScores.ai_confidence_score, <<0, 1>>)
     /\ lastRun.cafeScores.remote_work_score = 5

\* C5: with at least one WiFi score among the work-related reviews, the
\* profile says fast iff the mean is at least 7, adequate iff it is at least
\* 4 and below 7, slow iff it is below 4.
C5_WifiThresholds ==
  ( lastRun # NoRun /\ WifiPositions(lastRun) # {} )
  => LET sum == WifiSum(lastRun)
         count == Cardinality(WifiPositions(lastRun))
         speed == lastRun.cafeScores.wifi_speed
     IN  /\ speed = "fast" <=> sum >= 7 * count
         /\ speed = "adequate" <=> (sum >= 4 * count /\ sum < 7 * count)
         /\ speed = "slow" <=> sum < 4 * count

\* a WiFi mean of exactly 7 (scores 8 and 6), reported as fast
C5_Witness ==
  /\ lastRun # NoRun
  /\ Cardinality(WifiPositions(lastRun)) = 2
  /\ WifiSum(lastRun) = 14
  /\ lastRun.cafeScores.wifi_speed = "fast"

\* C6: the sentiment of every analyzed review, work-related or not, is
\* (positive - negative) / max(positive + negative, 1), lies in [-1, 1], and
\* is exactly 1 when only positive phrases match.
C6_Sentiment ==
  lastRun # NoRun =>
    \A i \in 1..Len(lastRun.input) :
      LET p == positiveCountOf[lastRun.input[i]]
          n == negativeCountOf[lastRun.input[i]]
          s == lastRun.reviewAnalyses[i].sentiment_score
      IN  /\ s[2] > 0
          /\ RatEq(s, << p - n, Max(p + n, 1) >>)
          /\ RatLeq(<<-1, 1>>, s) /\ RatLeq(s, <<1, 1>>)
          /\ (p > 0 /\ n = 0) => RatEq(s, <<1, 1>>)

\* a run with a review that is not work-related and matches only positive
\* phrases, and a work-related review that matches only negative ones
C6_Witness ==
  /\ lastRun # NoRun
  /\ \E i \in 1..Len(lastRun.input) :
       /\ ~lastRun.reviewAnalyses[i].is_work_related
       /\ positiveCountOf[lastRun.input[i]] > 0
       /\ negativeCountOf[lastRun.input[i]] = 0
       /\ RatEq(lastRun.reviewAnalyses[i].sentiment_score, <<1, 1>>)
  /\ \E i \in 1..Len(lastRun.input) :
       /\ lastRun.reviewAnalyses[i].is_work_related
       /\ negativeCountOf[lastRun.input[i]] > positiveCountOf[lastRun.input[i]]

\* the vocabulary terms of each provider text, counted apart from
\* analyzeReview
keywordCountOf ==
  [ t \in Texts |-> CountIncluded(toLowerCase(t), workKeywords) ]

\* the number of reviews of a list with two or more vocabulary terms
WorkCount(texts) ==
  Cardinality({ i \in 1..Len(texts) : keywordCountOf[texts[i]] >= 2 })

\* C15: the confidence of the profile of any review list is min(1, W / 10)
\* for its W work-related reviews: 0 when W = 0, at most 1, and not lowered
\* by one more work-related review.
C15_ConfidenceFormula ==
  lastRun # NoRun =>
    LET W == WorkCount(lastRun.input)
        confidence == lastRun.cafeScores.ai_confidence_score
    IN  /\ RatEq(confidence, RatMin(<<1, 1>>, << W, 10 >>))
        /\ W = 0 => RatEq(confidence, <<0, 1>>)
        /\ RatLeq(confidence, <<1, 1>>)
        /\ \A t \in Texts :
             keywordCountOf[t] >= 2 =>
               RatLeq(confidence,
                      calculateCafeScores(
                        lastRun.reviewAnalyses \o << analysisOf[t] >>)
                        .ai_confidence_score)

\* the attribute cues of each provider text, found apart from analyzeReview
cuesOf ==
  [ t \in Texts |->
      { a \in { "wifi_quality", "noise_level", "outlet_availability",
                "laptop_friendliness" } :
          CountIncluded(toLowerCase(t),
            CASE a = "wifi_quality" -> << "wifi", "internet" >>
              [] a = "noise_level" -> << "quiet", "loud", "noise" >>
              [] a = "outlet_availability" -> << "outlet", "power", "charging" >>
              [] a = "laptop_friendliness" -> << "laptop", "computer", "work" >>)
            > 0 } ]

\* the positions of a run whose review is work-related and has a cue for
\* the attribute
CuePositions(r, a) ==
  { i \in 1..Len(r.input) :
      keywordCountOf[r.input[i]] >= 2 /\ a \in cuesOf[r.input[i]] }

\* the sum of the attribute's sub-scores over those positions
CueSum(r, a) ==
  SumOver([ i \in 1..Len(r.input) |->
              IF i \in CuePositions(r, a)
              THEN r.reviewAnalyses[i].extracted_attributes[a].score
              ELSE 0 ],
          CuePositions(r, a))

\* C16: the average of each attribute is the sum of the sub-scores of the
\* work-related reviews with a cue for it over their number (reviews
\* without the cue are left out, not counted as zero), and 5 when no review
\* has a value for it.
C16_AttributeMean ==
  lastRun # NoRun =>
    \A a \in Attributes :
      LET P == CuePositions(lastRun, a)
          avg == lastRun.averages[a]
      IN  /\ avg[2] > 0
          /\ P = {} => RatEq(avg, <<5, 1>>)
          /\ P # {} => RatEq(avg, << CueSum(lastRun, a), Cardinality(P) >>)

\* a run where one of two work-related reviews has an outlet cue and one a
\* laptop cue, the WiFi scores of the two differ, and no review has a
\* seating value
C16_Witness ==
  /\ lastRun # NoRun
  /\ WorkCount(lastRun.input) >= 2
  /\ Cardinality(CuePositions(lastRun, "outlet_availability")) = 1
  /\ Cardinality(CuePositions(lastRun, "wifi_quality")) = 2
  /\ RatEq(lastRun.averages["wifi_quality"], <<11, 2>>)
  /\ RatEq(lastRun.averages["outlet_availability"], <<2, 1>>)
  /\ RatEq(lastRun.averages["seating_comfort"], <<5, 1>>)

\* the mean of an attribute as <<sum, count>>, from the cues: 5 without one
CueMean(r, a) ==
  IF CuePositions(r, a) = {} THEN <<5, 1>>
  ELSE << CueSum(r, a), Cardinality(CuePositions(r, a)) >>

\* C17: with at least one work-related review, noise_level is quiet iff the
\* noise mean is at most 3, moderate iff it is above 3 and at most 7, loud
\* otherwise; laptop_policy is encouraged iff the laptop mean is at least 7,
\* allowed iff it is at least 4 and below 7, discouraged otherwise.
C17_NoiseLaptopThresholds ==
  ( lastRun # NoRun /\ WorkCount(lastRun.input) >= 1 )
  => LET noise == CueMean(lastRun, "noise_level")
         laptop == CueMean(lastRun, "laptop_friendliness")
         level == lastRun.cafeScores.noise_level
         policy == lastRun.cafeScores.laptop_policy
     IN  /\ level = "quiet" <=> noise[1] <= 3 * noise[2]
         /\ level = "moderate"
              <=> (noise[1] > 3 * noise[2] /\ noise[1] <= 7 * noise[2])
         /\ level = "loud" <=> noise[1] > 7 * noise[2]
         /\ policy = "encouraged" <=> laptop[1] >= 7 * laptop[2]
         /\ policy = "allowed"
              <=> (laptop[1] >= 4 * laptop[2] /\ laptop[1] < 7 * laptop[2])
         /\ policy = "discouraged" <=> laptop[1] < 4 * laptop[2]

\* a noise mean of exactly 3 (scores 2, 2 and 5), reported as quiet, with a
\* laptop mean below 4, reported as discouraged
C17_Witness ==
  /\ lastRun # NoRun
  /\ Cardinality(CuePositions(lastRun, "noise_level")) = 3
  /\ CueSum(lastRun, "noise_level") = 9
  /\ lastRun.cafeScores.noise_level = "quiet"
  /\ CuePositions(lastRun, "laptop_friendliness") # {}
  /\ lastRun.cafeScores.laptop_policy = "discouraged"

\* C20: every profile the aggregator returns meets the CHECK constraints of
\* the cafes table: remote_work_score in 0..10, outlet_rating and
\* seating_rating in 1..5, ai_confidence_score between 0 and 1, and
\* wifi_speed, noise_level and laptop_policy each one of the three values
\* its constraint lists.
C20_ProfileWithinStoreConstraints ==
  lastRun # NoRun
  => LET p == lastRun.cafeScores
     IN  /\ p.remote_work_score \in 0..10
         /\ p.outlet_rating \in 1..5
         /\ p.seating_rating \in 1..5
         /\ RatLeq(<<0, 1>>, p.ai_confidence_score)
         /\ RatLeq(p.ai_confidence_score, <<1, 1>>)
         /\ p.wifi_speed \in { "fast", "adequate", "slow" }
         /\ p.noise_level \in { "quiet", "moderate", "loud" }
         /\ p.laptop_policy \in { "encouraged", "allowed", "discouraged" }

\* a computed profile with the outlet rating on the lower edge of its range
\* and the laptop policy at its top value
C20_Witness ==
  /\ lastRun # NoRun
  /\ lastRun.cafeScores.work_reviews_count = MaxBatch
  /\ lastRun.cafeScores.outlet_rating = 1
  /\ lastRun.cafeScores.laptop_policy = "encouraged"
  /\ lastRun.cafeScores.wifi_speed = "slow"

\* C25: good_for_calls holds iff the noise mean is at most 4, good_for_focus
\* iff the noise mean is at most 3 and the WiFi mean at least 6 (means as
\* in C16, 5 without a value), so good_for_focus implies good_for_calls;
\* both are false in the default profile.
C25_FocusStricterThanCalls ==
  lastRun # NoRun
  => LET p == lastRun.cafeScores
         noise == CueMean(lastRun, "noise_level")
         wifi == CueMean(lastRun, "wifi_quality")
     IN  /\ p.good_for_focus => p.good_for_calls
         /\ p.good_for_calls <=> RatLeq(noise, <<4, 1>>)
         /\ p.good_for_focus <=> ( RatLeq(noise, <<3, 1>>)
                                    /\ RatLeq(<<6, 1>>, wifi) )
         /\ WorkCount(lastRun.input) = 0
              => ~p.good_for_calls /\ ~p.good_for_focus

\* a noise mean of 7/2 with a WiFi mean of at least 6: good for calls, not
\* for focus
C25_Witness ==
  /\ lastRun # NoRun
  /\ RatEq(CueMean(lastRun, "noise_level"), <<7, 2>>)
  /\ RatLeq(<<6, 1>>, CueMean(lastRun, "wifi_quality"))
  /\ lastRun.cafeScores.good_for_calls
  /\ ~lastRun.cafeScores.good_for_focus

\* C26: with at least one work-related review, the tag "quiet" is present
\* iff noise_level is quiet, "fast-wifi" iff wifi_speed is fast,
\* "laptop-friendly" iff laptop_policy is encouraged, and the deal breaker
\* "slow wifi" is present only if wifi_speed is slow.
C26_TagsAgreeWithCategoricals ==
  ( lastRun # NoRun /\ WorkCount(lastRun.input) >= 1 )
  => LET p == lastRun.cafeScores
         tags == Range(p.vibe_tags)
     IN  /\ "quiet" \in tags <=> p.noise_level = "quiet"
         /\ "fast-wifi" \in tags <=> p.wifi_speed = "fast"
         /\ "laptop-friendly" \in tags <=> p.laptop_policy = "encouraged"
         /\ "slow wifi" \in Range(p.deal_breakers) => p.wifi_speed = "slow"

\* a laptop mean of exactly 7 (tagged laptop-friendly, policy encouraged)
\* in a profile that is slow on WiFi with the deal breaker and not quiet
C26_Witness ==
  /\ lastRun # NoRun
  /\ CuePositions(lastRun, "laptop_friendliness") # {}
  /\ RatEq(CueMean(lastRun, "laptop_friendliness"), <<7, 1>>)
  /\ "laptop-friendly" \in Range(lastRun.cafeScores.vibe_tags)
  /\ "slow wifi" \in Range(lastRun.cafeScores.deal_breakers)
  /\ "quiet" \notin Range(lastRun.cafeScores.vibe_tags)

\* C27: a profile computed from at least one work-related review has
\* remote_work_score in 2..6 and seating_rating 3, never the tag
\* "work-friendly" and never the summary bracket "Excellent for remote
\* work".
C27_WorkScoreRange ==
  ( lastRun # NoRun /\ WorkCount(lastRun.input) >= 1 )
  => LET p == lastRun.cafeScores
     IN  /\ p.remote_work_score \in 2..6
         /\ p.seating_rating = 3
         /\ "work-friendly" \notin Range(p.vibe_tags)
         /\ substring0(p.work_summary, 9) # "Excellent"

\* the best sub-scores of the decision table (8, 2, 9, 9) in every review:
\* the score is 6
C27_Witness ==
  /\ lastRun # NoRun
  /\ WorkCount(lastRun.input) = Len(lastRun.input)
  /\ Len(lastRun.input) >= 2
  /\ RatEq(CueMean(lastRun, "wifi_quality"), <<8, 1>>)
  /\ RatEq(CueMean(lastRun, "noise_level"), <<2, 1>>)
  /\ RatEq(CueMean(lastRun, "outlet_availability"), <<9, 1>>)
  /\ RatEq(CueMean(lastRun, "laptop_friendliness"), <<9, 1>>)
  /\ lastRun.cafeScores.remote_work_score = 6

(***************************************************************************)
(* Properties of the script's flagging (SpecScript)                        *)
(***************************************************************************)
\* C4: a stored review whose text matches exactly one term of the
\* vocabulary is not flagged work-related, one that matches two or more
\* distinct terms is.
C4_RelevanceThreshold ==
  \A k \in 1..Len(reviewsTable) :
    LET matches == CountIncluded(toLowerCase(reviewsTable[k].text),
                                 WORK_KEYWORDS)
    IN  /\ matches = 1 => ~reviewsTable[k].is_work_related
        /\ matches >= 2 => reviewsTable[k].is_work_related

\* C11: when the first answer of the summarizer cannot be parsed, a run that
\* has ended asked the summarizer exactly twice, and no run ends the process
\* because of an answer that cannot be parsed.
C11_SummarizerRetry ==
  /\ ( /\ script.pc \in { "done", "exit" }
       /\ Len(script.responses) >= 1
       /\ parsedOf[script.responses[1]] = SyntaxError )
     => Len(script.responses) = 2
  /\ script.pc = "exit" => script.error # "SyntaxError"

(***************************************************************************)
(* Properties of ingestion (SpecIngest)                                    *)
(***************************************************************************)
\* the identifier DatabaseService.storeReviews gives a provider review
reviewIdOf(cafeId, review) ==
  reviewToInsert(cafeId, review, "").google_review_id

storedIds(rows) == { rows[k].google_review_id : k \in 1..Len(rows) }

\* C13: a storeReviews call keeps every stored row where and as it was, no
\* two stored reviews of a venue share an identifier, and a call whose
\* batch is all stored already, or repeats an identifier, changes no stored
\* review and does not end in an error.
C13_IngestionDeduplicates ==
  [][ /\ \A c \in Cafes :
           /\ Len(cafe_reviews'[c]) >= Len(cafe_reviews[c])
           /\ SubSeq(cafe_reviews'[c], 1, Len(cafe_reviews[c]))
                = cafe_reviews[c]
           /\ \A i, j \in 1..Len(cafe_reviews'[c]) :
                i # j => cafe_reviews'[c][i].google_review_id
                           # cafe_reviews'[c][j].google_review_id
      /\ ( /\ ingest' # ingest
           /\ LET ids == [ k \in 1..Len(ingest'.reviews) |->
                            reviewIdOf(ingest'.cafe_id, ingest'.reviews[k]) ]
              IN  \/ Range(ids) \subseteq storedIds(cafe_reviews[ingest'.cafe_id])
                  \/ \E i, j \in 1..Len(ids) : i # j /\ ids[i] = ids[j] )
         => /\ cafe_reviews' = cafe_reviews
            /\ ingest'.outcome # "threw" ]_vars

(***************************************************************************)
(* Properties of the analysis runs (Spec)                                  *)
(***************************************************************************)
InAnalyzeCafe(r) ==
  r.pc \in { "getCafeReviews", "analyzeReview", "updateCafeScores",
             "logAIAnalysis", "catch" }

\* C7: the step with which an analyzeCafe invocation ends appends one audit
\* record for the venue, with a status and a duration.
C7_OneAuditRecordPerRun ==
  [][ ( InAnalyzeCafe(run) /\ ~InAnalyzeCafe(run') )
      => /\ Len(ai_analysis_log') = Len(ai_analysis_log) + 1
         /\ LET log == ai_analysis_log'[Len(ai_analysis_log')]
            IN  /\ log.cafe_id = run.cafe.id
                /\ "status" \in DOMAIN log
                /\ "processing_time_ms" \in DOMAIN log ]_vars

\* C8: when processCafesNeedingAnalysis ends by an error, no venue of the
\* batch after the current one is left unprocessed.
C8_FailuresIsolated ==
  run.pc = "threw" => run.next >= Len(run.cafes)

\* C9: the profile of a venue was not written during a run that is recorded
\* as failed (the run of an audit record began at created_at -
\* processing_time_ms and ended at created_at).
C9_FailedRunKeepsProfile ==
  \A k \in 1..Len(ai_analysis_log) :
    LET log == ai_analysis_log[k]
        written == cafes[log.cafe_id].last_ai_analysis_at
    IN  log.status = "failed" =>
          ~( log.created_at - log.processing_time_ms <= written
             /\ written <= log.created_at )

\* C14: in a run that has aggregated, a fetched review with fewer than two
\* vocabulary terms has no extracted attribute whatever cues its text holds;
\* an attribute no work-related review has a cue for is at its default in
\* the profile; and the run counts every fetched review as processed.
C14_OnlyWorkReviewsContribute ==
  run.pc = "logAIAnalysis" =>
    LET n == Len(run.reviews)
        work == { i \in 1..n : keywordCountOf[run.reviews[i].review_text] >= 2 }
        cued(a) == \E i \in work : a \in cuesOf[run.reviews[i].review_text]
    IN  /\ Len(run.reviewAnalyses) = n
        /\ \A i \in (1..n) \ work :
             /\ ~run.reviewAnalyses[i].is_work_related
             /\ DOMAIN run.reviewAnalyses[i].extracted_attributes = {}
        /\ (work # {} /\ ~cued("wifi_quality"))
             => run.cafeScores.wifi_speed = "adequate"
        /\ (work # {} /\ ~cued("noise_level"))
             => run.cafeScores.noise_level = "moderate"
        /\ (work # {} /\ ~cued("laptop_friendliness"))
             => run.cafeScores.laptop_policy = "allowed"
        /\ (work # {} /\ ~cued("outlet_availability"))
             => run.cafeScores.outlet_rating = 3
        /\ run.analysisLog.reviews_processed = n
        /\ run.analysisLog.work_reviews_found = Cardinality(work)

\* a run over a work-related review without a noise cue and a review that
\* is not work-related but has one: noise is at its default
C14_Witness ==
  /\ run.pc = "logAIAnalysis"
  /\ \E i, j \in 1..Len(run.reviews) :
       /\ keywordCountOf[run.reviews[i].review_text] < 2
       /\ "noise_level" \in cuesOf[run.reviews[i].review_text]
       /\ keywordCountOf[run.reviews[j].review_text] >= 2
       /\ "noise_level" \notin cuesOf[run.reviews[j].review_text]
  /\ run.cafeScores.noise_level = "moderate"
  /\ run.analysisLog.reviews_processed = 2

\* the profile calculateCafeScores gives for all the stored reviews of a venue
profileOfStored(c) ==
  calculateCafeScores([ i \in 1..Len(cafe_reviews[c]) |->
                          analysisOf[cafe_reviews[c][i].review_text] ])

\* C12: a run recorded as completed processed every stored review of the
\* venue, and the venue's profile is the aggregate of all its stored
\* reviews (so a function of the reviews alone), however many are stored.
C12_FullReviewSet ==
  \A k \in 1..Len(ai_analysis_log) :
    LET log == ai_analysis_log[k]
    IN  log.status = "completed" =>
          /\ log.reviews_processed = Len(cafe_reviews[log.cafe_id])
          /\ cafes[log.cafe_id].scores = profileOfStored(log.cafe_id)

\* C18: a step of analyzeCafe for a venue leaves the row of every other
\* venue in cafes (profile, flag) and the rows of every other venue in
\* cafe_reviews as they were, and an audit record it appends is the
\* venue's.
C18_VenueIndependence ==
  [][ ( run' # run /\ (InAnalyzeCafe(run) \/ InAnalyzeCafe(run')) )
      => LET A == IF InAnalyzeCafe(run) THEN run.cafe.id ELSE run'.cafe.id
         IN  /\ \A B \in Cafes \ { A } :
                  /\ cafes'[B] = cafes[B]
                  /\ cafe_reviews'[B] = cafe_reviews[B]
             /\ Len(ai_analysis_log') >= Len(ai_analysis_log)
             /\ SubSeq(ai_analysis_log', 1, Len(ai_analysis_log))
                  = ai_analysis_log
             /\ \A k \in (Len(ai_analysis_log) + 1)..Len(ai_analysis_log') :
                  ai_analysis_log'[k].cafe_id = A ]_vars

\* a run for one venue has annotated a review and written the profile
\* while another venue has stored reviews, none annotated, and is marked
C18_Witness ==
  /\ run.pc = "logAIAnalysis"
  /\ \E k \in 1..Len(cafe_reviews[run.cafe.id]) :
       cafe_reviews[run.cafe.id][k].analyzed_at # 0
  /\ cafes[run.cafe.id].scores # NullScores
  /\ \E B \in Cafes \ { run.cafe.id } :
       /\ cafe_reviews[B] # <<>>
       /\ \A k \in 1..Len(cafe_reviews[B]) : cafe_reviews[B][k].analyzed_at = 0
       /\ cafes[B].needs_ai_reanalysis
       /\ cafes[B].scores = NullScores

\* C19: when the profile write of a run has failed, the step that leaves
\* the catch block appends the run's audit record with status "failed" and
\* the error's message, no record of the run has status "completed", and
\* the venue is still marked as needing reanalysis.
C19_PersistenceFailureIsRunFailure ==
  [][ ( run.pc = "catch" /\ run.error = "updateCafeScores" /\ run' # run )
      => /\ Len(ai_analysis_log') = Len(ai_analysis_log) + 1
         /\ LET record == ai_analysis_log'[Len(ai_analysis_log')]
            IN  /\ record.cafe_id = run.cafe.id
                /\ record.status = "failed"
                /\ record.error_message = run.error
         /\ \A k \in 1..Len(ai_analysis_log') :
              ( /\ ai_analysis_log'[k].cafe_id = run.cafe.id
                /\ ai_analysis_log'[k].created_at >= run.startTime )
              => ai_analysis_log'[k].status # "completed"
         /\ cafes'[run.cafe.id].needs_ai_reanalysis ]_vars

\* C21: the log a run fills in when its profile write succeeds (appended
\* with status completed) has the work score stored for the venue before
\* the write as previous_work_score, the score written as new_work_score,
\* and their difference as score_change: 0 when the same profile is
\* written again.
C21_AuditRecordsScoreChange ==
  [][ ( run.pc = "updateCafeScores" /\ run'.pc = "logAIAnalysis" )
      => LET stored == cafes[run.cafe.id].scores
             written == cafes'[run.cafe.id].scores
             log == run'.analysisLog
         IN  /\ log.status = "completed"
             /\ log.new_work_score = written.remote_work_score
             /\ log.score_change
                  = log.new_work_score - log.previous_work_score
             /\ stored # NullScores
                  => log.previous_work_score = stored.remote_work_score
             /\ stored = written => log.score_change = 0 ]_vars

\* C28: the total_reviews_scraped of a venue is the number of reviews
\* stored for it.
C28_ReviewCounterConsistent ==
  \A c \in Cafes : cafes[c].total_reviews_scraped = Len(cafe_reviews[c])

\* C22: when processCafesNeedingAnalysis has returned and the profile of
\* the venue it analysed last was written by that run, a review stored for
\* the venue that was not among the reviews the run fetched leaves the
\* venue marked needs_ai_reanalysis.
C22_NewReviewsLeadToRecomputation ==
  ( /\ run.pc = "done"
    /\ { "cafe", "reviews", "startTime" } \subseteq DOMAIN run
    /\ cafes[run.cafe.id].last_ai_analysis_at >= run.startTime )
  => LET A == run.cafe.id
         fetched == { run.reviews[i].id : i \in 1..Len(run.reviews) }
     IN  ( \E k \in 1..Len(cafe_reviews[A]) :
             cafe_reviews[A][k].id \notin fetched )
         => cafes[A].needs_ai_reanalysis

\* the rows of a venue differ in an annotation
Annotates(c) ==
  \E k \in 1..Len(cafe_reviews[c]) :
    cafe_reviews'[c][k].analyzed_at # cafe_reviews[c][k].analyzed_at

\* the step writes the profile of a venue
WritesProfile(c) ==
  \/ cafes'[c].scores # cafes[c].scores
  \/ cafes'[c].last_ai_analysis_at # cafes[c].last_ai_analysis_at

\* C23: within a run a review is annotated only while the fetched list is
\* being walked; the profile of a venue is written only by the run of that
\* venue after it analysed every fetched review; needs_ai_reanalysis is
\* cleared only by the step that writes the profile; and a record with
\* status completed is appended only when the run's profile write is in
\* the store.
C23_StepsStrictlyOrdered ==
  [][ /\ \A c \in Cafes :
           /\ Annotates(c)
                => /\ run.pc = "analyzeReview"
                   /\ run.cafe.id = c
                   /\ run.i \in 1..Len(run.reviews)
                   /\ Len(run.reviewAnalyses) = run.i - 1
           /\ WritesProfile(c)
                => /\ run.pc = "updateCafeScores"
                   /\ run.cafe.id = c
                   /\ Len(run.reviewAnalyses) = Len(run.reviews)
                   /\ \A i \in 1..Len(run.reviews) :
                        run.reviewAnalyses[i]
                          = analysisOf[run.reviews[i].review_text]
           /\ ( cafes[c].needs_ai_reanalysis
                /\ ~cafes'[c].needs_ai_reanalysis )
                => /\ run.pc = "updateCafeScores"
                   /\ run.cafe.id = c
                   /\ cafes'[c].scores = run'.cafeScores
                   /\ cafes'[c].last_ai_analysis_at = now
      /\ ( /\ Len(ai_analysis_log') = Len(ai_analysis_log) + 1
           /\ ai_analysis_log'[Len(ai_analysis_log')].status = "completed" )
         => /\ run.pc = "logAIAnalysis"
            /\ cafes[run.cafe.id].scores = run.cafeScores
            /\ cafes[run.cafe.id].last_ai_analysis_at >= run.startTime
    ]_vars

\* a run over two fetched reviews has written the profile, cleared the
\* flag and appended its completed record
C23_Witness ==
  /\ run.pc \in { "loop", "done" }
  /\ ai_analysis_log # <<>>
  /\ LET log == ai_analysis_log[Len(ai_analysis_log)]
     IN  /\ log.status = "completed"
         /\ log.reviews_processed = 2
         /\ log.work_reviews_found >= 1
         /\ ~cafes[log.cafe_id].needs_ai_reanalysis
         /\ cafes[log.cafe_id].scores # NullScores

\* C24: a step of the review loop annotates at most the review it is at
\* and moves on, so no review is written twice in a pass; and when a run
\* appends its completed record, every review it processed has analyzed_at
\* set and its work-related flag, sentiment and attributes stored.
C24_ProcessedReviewsAnalyzed ==
  [][ /\ \A c \in Cafes : \A k \in 1..Len(cafe_reviews[c]) :
           cafe_reviews'[c][k] # cafe_reviews[c][k]
           => /\ run.pc = "analyzeReview"
              /\ cafe_reviews[c][k].id = run.reviews[run.i].id
              /\ run'.pc = "analyzeReview" => run'.i = run.i + 1
      /\ ( /\ Len(ai_analysis_log') = Len(ai_analysis_log) + 1
           /\ ai_analysis_log'[Len(ai_analysis_log')].status = "completed" )
         => \A i \in 1..Len(run.reviews) :
              \E k \in 1..Len(cafe_reviews[run.cafe.id]) :
                LET row == cafe_reviews[run.cafe.id][k]
                    analysis == analysisOf[run.reviews[i].review_text]
                IN  /\ row.id = run.reviews[i].id
                    /\ row.analyzed_at # 0
                    /\ row.is_work_related = analysis.is_work_related
                    /\ row.sentiment_score = analysis.sentiment_score
                    /\ row.extracted_attributes
                         = analysis.extracted_attributes
    ]_vars

\* C29: a venue that is marked needs_ai_reanalysis and has a stored review
\* is eventually analysed and unmarked, whatever other venues are marked.
C29_NoStarvation ==
  \A c \in Cafes :
    ( cafes[c].needs_ai_reanalysis /\ cafe_reviews[c] # <<>> )
    ~> ( ~cafes[c].needs_ai_reanalysis /\ cafes[c].scores # NullScores )

\* processCafesNeedingAnalysis has visited a marked venue without reviews
\* and left it marked, after a venue with reviews was analysed and unmarked
C29_Witness ==
  /\ run.pc = "done"
  /\ "cafe" \in DOMAIN run
  /\ cafe_reviews[run.cafe.id] = <<>>
  /\ cafes[run.cafe.id].needs_ai_reanalysis
  /\ \E c \in Cafes \ { run.cafe.id } :
       /\ cafe_reviews[c] # <<>>
       /\ ~cafes[c].needs_ai_reanalysis
       /\ cafes[c].scores # NullScores

\* C30: no toggleFavorite call ends in a store error, and when every call
\* has completed the favorites state holds a cafe id iff the user has a
\* user_favorites row for it.
C30_FavoritesCacheConsistent ==
  /\ \A t \in Toggles : toggles[t].pc # "error"
  /\ ( \A t \in Toggles : toggles[t].pc \in { "idle", "done" } )
       => favorites = user_favorites

\* C10: after an analyzeCafe invocation that fetched reviews has ended,
\* either it wrote the profile and the annotation of each work-related
\* review it fetched, or it wrote none of them.
C10_AllOrNothing ==
  ( ~InAnalyzeCafe(run) /\ "reviews" \in DOMAIN run )
  => LET c == run.cafe.id
         due == { i \in 1..Len(run.reviews) :
                    analysisOf[run.reviews[i].review_text].is_work_related }
         annotated(i) ==
           \E k \in 1..Len(cafe_reviews[c]) :
             /\ cafe_reviews[c][k].id = run.reviews[i].id
             /\ cafe_reviews[c][k].analyzed_at >= run.startTime
         profileWritten == cafes[c].last_ai_analysis_at >= run.startTime
     IN  \/ profileWritten /\ \A i \in due : annotated(i)
         \/ ~profileWritten /\ \A i \in due : ~annotated(i)

====
